---- MODULE Spec2Model ----
(***************************************************************************)
(* Verification model of bruno-mcp-server: the request execution pipeline  *)
(* (RequestExecutionService behind the BrunoCLI facade), the tool handlers *)
(* and their dispatcher, request-file lookup, collection discovery,        *)
(* request listing and its cache, collection and environment validation,   *)
(* the request-details parser, the tool registry, the collection-root      *)
(* criterion of the three collection operations, the envVariables of a run *)
(* call and the normalization of request outcomes.                         *)
(***************************************************************************)
EXTENDS Integers, Sequences, FiniteSets, TLC

VARIABLES calls, files, nextUuid, inv
VARIABLES requests, requestName, foundPath, findPc
VARIABLES tree, discoveryCache, discovery
VARIABLES pathState, requestListCache, listing
VARIABLES validation, envValidation
VARIABLES parsing
VARIABLES handlers, firstRegistered, registryCall
VARIABLES site, verdicts
VARIABLES envRun
VARIABLES normalizing

runVars == <<calls, files, nextUuid>>
toolVars == <<inv>>
findVars == <<requests, requestName, foundPath, findPc>>
discVars == <<tree, discoveryCache, discovery>>
listVars == <<pathState, requestListCache, listing>>
valVars == <<validation, envValidation>>
parseVars == <<parsing>>
regVars == <<handlers, firstRegistered, registryCall>>
rootVars == <<site, verdicts>>
argVars == <<envRun>>
normVars == <<normalizing>>
extVars == <<rootVars, argVars, normVars>>
coreSvcVars == <<listVars, valVars, parseVars, regVars>>
svcVars == <<coreSvcVars, extVars>>
vars == <<runVars, toolVars, findVars, discVars, svcVars>>

\* What the actions of one service leave alone.
notListVars ==
  <<runVars, toolVars, findVars, discVars, valVars, parseVars, regVars, extVars>>
notValVars ==
  <<runVars, toolVars, findVars, discVars, listVars, parseVars, regVars, extVars>>
notParseVars ==
  <<runVars, toolVars, findVars, discVars, listVars, valVars, regVars, extVars>>
notRootVars == <<runVars, toolVars, findVars, discVars, coreSvcVars, argVars, normVars>>
notArgVars == <<runVars, toolVars, findVars, discVars, coreSvcVars, rootVars, normVars>>
notNormVars == <<runVars, toolVars, findVars, discVars, coreSvcVars, rootVars, argVars>>
notRegVars ==
  <<runVars, toolVars, findVars, discVars, listVars, valVars, parseVars, extVars>>


(***************************************************************************)
(* Bounds                                                                  *)
(***************************************************************************)
MaxCalls == 2
MaxListed == 2
MaxWarnings == 2
MaxNameLen == 2
MaxRequests == 2
MaxRoots == 2
MaxEnvironments == 2
MaxVars == 2
MaxBlocks == 2
MaxHandlers == 2
MaxUuid == 2
MaxSiteDepth == 2
MaxEnvEntries == 2
MaxTests == 1
MaxFailed == 1
MaxDuration == 4
MaxStderrFragments == 2
RequestTimeout == 1
CollectionTimeout == 2

Calls == 1..MaxCalls

(***************************************************************************)
(* Text produced by the external runner                                    *)
(***************************************************************************)
\* What a JSON-capable output channel (temp file, stdout) can hold.
NoContent == [kind |-> "none", hasSummary |-> FALSE, failed |-> 0]
Garbage == [kind |-> "garbage", hasSummary |-> FALSE, failed |-> 0]
JsonValues ==
  {[kind |-> "json", hasSummary |-> FALSE, failed |-> 0]}
    \cup {[kind |-> "json", hasSummary |-> TRUE, failed |-> n] : n \in 0..MaxFailed}
Contents == {NoContent, Garbage} \cup JsonValues

\* stderr is the set of text fragments it contains; {} is the empty string.
StderrFragments ==
  {"command not found", "not recognized", "ENOENT",
   "You can run only at the root of a collection", "other"}
StderrValues == {s \in SUBSET StderrFragments : Cardinality(s) <= MaxStderrFragments}

Null == [kind |-> "null", hasSummary |-> FALSE, failed |-> 0]

NoResult ==
  [failed |-> FALSE, timedOut |-> FALSE, spawned |-> FALSE, hasExit |-> FALSE,
   exitCode |-> 0, stderr |-> {}, stdout |-> NoContent]

NoOutcome ==
  [status |-> "none", kind |-> "none", exitCode |-> 0, hasSummary |-> FALSE,
   failedRequests |-> 0, stderr |-> {}, timeoutMessage |-> FALSE]

IdleCall ==
  [pc |-> "idle", op |-> "none", custom |-> FALSE, tempFile |-> 0,
   res |-> NoResult, json |-> Null, wrote |-> NoContent, outcome |-> NoOutcome]

Paths == 1..MaxUuid
ExitCodes == {0, 1}

RunIdle ==
  /\ calls = [c \in Calls |-> IdleCall]
  /\ files = [p \in Paths |-> NoContent]
  /\ nextUuid = 1

(***************************************************************************)
(* RequestExecutionService helpers                                         *)
(***************************************************************************)
\* The timeout handed to execa: timeout.request or timeout.collection.
TimeoutFor(op) == IF op = "runRequest" THEN RequestTimeout ELSE CollectionTimeout

\* What execa resolves to under reject: false.  A spawn failure and a timeout
\* are returned (not thrown) with failed = true and no exit code.
ExecaResult(op, spawnOk, duration, exit, err, out) ==
  IF ~spawnOk
    THEN [failed |-> TRUE, timedOut |-> FALSE, spawned |-> FALSE, hasExit |-> FALSE,
          exitCode |-> 0, stderr |-> {}, stdout |-> NoContent]
  ELSE IF duration > TimeoutFor(op)
    THEN [failed |-> TRUE, timedOut |-> TRUE, spawned |-> TRUE, hasExit |-> FALSE,
          exitCode |-> 0, stderr |-> err, stdout |-> out]
  ELSE [failed |-> exit # 0, timedOut |-> FALSE, spawned |-> TRUE, hasExit |-> TRUE,
        exitCode |-> exit, stderr |-> err, stdout |-> out]

\* runRequest line 71: a non-zero exit or a failed run is thrown.
RunRequestThrowsResult(res) == (~res.hasExit \/ res.exitCode # 0) \/ res.failed

\* runCollection has no such check: no execa result is thrown.
RunCollectionThrowsResult(res) == FALSE

ThrowsResult(op, res) ==
  IF op = "runRequest" THEN RunRequestThrowsResult(res) ELSE RunCollectionThrowsResult(res)

\* readJsonOutput: the temp file is read only without custom reporters; a
\* missing file or unparseable text gives null.
ReadJsonOutput(fs, tempFile, custom) ==
  IF custom THEN Null
  ELSE IF fs[tempFile].kind = "json" THEN fs[tempFile] ELSE Null

\* A cleanup that leaves the file in place.
CleanupTempFileSkipped(fs, tempFile) == fs

\* cleanupTempFile: unlink, errors ignored.
CleanupTempFile(fs, tempFile) == [fs EXCEPT ![tempFile] = NoContent]

\* tryParseJson on stdout.
TryParseJson(out) == IF out.kind = "json" THEN out ELSE Null

\* A parseRunResult that prefers stdout over the JSON read from the temp file.
ParseRunResultStdoutFirst(res, jsonOutput) ==
  LET fromStdout == TryParseJson(res.stdout)
      jsonResult == IF fromStdout.kind = "json" THEN fromStdout ELSE jsonOutput
      hasSum == jsonResult.kind = "json" /\ jsonResult.hasSummary
  IN [status |-> "returned", kind |-> "RunResult",
      exitCode |-> IF res.hasExit THEN res.exitCode ELSE 0,
      hasSummary |-> hasSum,
      failedRequests |-> IF hasSum THEN jsonResult.failed ELSE 0,
      stderr |-> res.stderr, timeoutMessage |-> FALSE]

\* parseRunResult: the normal RunResult.
ParseRunResult(res, jsonOutput) ==
  LET jsonResult == IF jsonOutput.kind = "json" THEN jsonOutput ELSE TryParseJson(res.stdout)
      hasSum == jsonResult.kind = "json" /\ jsonResult.hasSummary
  IN [status |-> "returned", kind |-> "RunResult",
      exitCode |-> IF res.hasExit THEN res.exitCode ELSE 0,
      hasSummary |-> hasSum,
      failedRequests |-> IF hasSum THEN jsonResult.failed ELSE 0,
      stderr |-> res.stderr, timeoutMessage |-> FALSE]

(***************************************************************************)
(* BrunoCLI facade                                                         *)
(***************************************************************************)
\* handleError applied to a thrown execa result (it has a stderr property).
\* Only the last branch quotes error.message, which for a timed-out run is
\* execa's "Command timed out after ..." text.
HandleError(res) ==
  LET kind ==
        IF "command not found" \in res.stderr \/ "not recognized" \in res.stderr
             \/ "ENOENT" \in res.stderr
          THEN "RunnerNotFound"
        ELSE IF "You can run only at the root of a collection" \in res.stderr
          THEN "NotACollectionRoot"
        ELSE IF res.stderr # {} THEN "RunnerError"
        ELSE "UnknownExecutionError"
  IN [status |-> "thrown", kind |-> kind, exitCode |-> 0, hasSummary |-> FALSE,
      failedRequests |-> 0,
      stderr |-> IF kind = "RunnerError" THEN res.stderr ELSE {},
      timeoutMessage |-> kind = "UnknownExecutionError" /\ res.timedOut]

\* handleError applied to a plain Error: returned unchanged.
PlainError(kind) ==
  [status |-> "thrown", kind |-> kind, exitCode |-> 0, hasSummary |-> FALSE,
   failedRequests |-> 0, stderr |-> {}, timeoutMessage |-> FALSE]


(***************************************************************************)
(* Tool handlers and the CallTool dispatcher                               *)
(***************************************************************************)
RegisteredTools ==
  {"bruno_run_request", "bruno_run_collection", "bruno_list_requests",
   "bruno_health_check", "bruno_discover_collections", "bruno_list_environments",
   "bruno_validate_environment", "bruno_get_request_details",
   "bruno_validate_collection"}
ToolNames == RegisteredTools \cup {"unknown_tool"}

NoError == [present |-> FALSE, mcp |-> FALSE, external |-> FALSE, masked |-> FALSE]

IdleInv ==
  [pc |-> "idle", tool |-> "none", dryRun |-> FALSE, validated |-> FALSE,
   valid |-> FALSE, securityEvents |-> 0, cliOps |-> <<>>, failedOps |-> 0,
   remaining |-> 0,
   resp |-> "none", err |-> NoError]

ToolIdle == inv = IdleInv

\* Validation wired into the two run handlers only.
ValidatesParametersRunOnly(tool) ==
  tool \in {"bruno_run_request", "bruno_run_collection"}

\* Every handler but health-check starts with validateToolParameters.
ValidatesParameters(tool) == tool # "bruno_health_check"

\* Handlers that log an access_denied security event on an invalid report.
LogsAccessDenied(tool) ==
  tool \in {"bruno_run_request", "bruno_run_collection", "bruno_list_requests"}

\* Handlers that log one security event per validation warning.
LogsWarnings(tool) == tool \in {"bruno_run_request", "bruno_run_collection"}

\* The BrunoCLI operation each handler invokes first once validation passed.
RunRequestOp(dryRun) == IF dryRun THEN "getRequestDetails" ELSE "runRequest"

\* A run-collection handler that executes even in dry-run mode.
RunCollectionOpIgnoringDryRun(dryRun) == "runCollection"

RunCollectionOp(dryRun) == IF dryRun THEN "listRequests" ELSE "runCollection"

HandlerOp(tool, dryRun) ==
  CASE tool = "bruno_run_request" -> RunRequestOp(dryRun)
    [] tool = "bruno_run_collection" -> RunCollectionOp(dryRun)
    [] tool = "bruno_list_requests" -> "listRequests"
    [] tool = "bruno_health_check" -> "isAvailable"
    [] tool = "bruno_discover_collections" -> "discoverCollections"
    [] tool = "bruno_list_environments" -> "listEnvironments"
    [] tool = "bruno_validate_environment" -> "validateEnvironment"
    [] tool = "bruno_get_request_details" -> "getRequestDetails"
    [] tool = "bruno_validate_collection" -> "validateCollection"

\* Whether the handler's BrunoCLI call sits in a try/catch that passes the
\* error through maskSecretsInError before rethrowing it as an McpError.
RunRequestMasks(dryRun) == dryRun

RunCollectionMasks(dryRun) == dryRun

HandlerMasks(tool, dryRun) ==
  CASE tool = "bruno_run_request" -> RunRequestMasks(dryRun)
    [] tool = "bruno_run_collection" -> RunCollectionMasks(dryRun)
    [] tool = "bruno_list_requests" -> FALSE
    [] tool = "bruno_health_check" -> FALSE
    [] OTHER -> TRUE

\* The CallTool dispatcher's catch: an McpError is rethrown as it is, any
\* other error is wrapped from its raw message.
Surface(error) ==
  IF error.mcp THEN error ELSE [error EXCEPT !.mcp = TRUE]

\* A handler's catch block: maskSecretsInError, then a new McpError.
MaskAndWrap(error) == [error EXCEPT !.mcp = TRUE, !.masked = TRUE]

\* The error a handler lets out for a failed BrunoCLI call.
HandlerError(tool, dryRun, error) ==
  IF HandlerMasks(tool, dryRun) THEN MaskAndWrap(error) ELSE error

\* CallTool: registry lookup, then the handler up to its first await.
CallTool ==
  /\ inv.pc = "idle"
  /\ \E tool \in ToolNames, dryRun \in BOOLEAN, schemaOk \in BOOLEAN :
       /\ dryRun => tool \in {"bruno_run_request", "bruno_run_collection"}
       /\ inv' =
            IF tool \notin RegisteredTools
              THEN [IdleInv EXCEPT !.pc = "done", !.tool = tool, !.resp = "error",
                      !.err = [present |-> TRUE, mcp |-> TRUE, external |-> FALSE,
                               masked |-> FALSE]]
            ELSE IF ~schemaOk
              THEN [IdleInv EXCEPT !.pc = "done", !.tool = tool, !.dryRun = dryRun,
                      !.resp = "error",
                      !.err = Surface([present |-> TRUE, mcp |-> FALSE,
                                       external |-> FALSE, masked |-> FALSE])]
            ELSE [IdleInv EXCEPT !.tool = tool, !.dryRun = dryRun,
                    !.pc = IF ValidatesParameters(tool) THEN "validate" ELSE "cli"]
  /\ UNCHANGED <<runVars, findVars, discVars, svcVars>>

\* validateToolParameters resolves; an invalid report is thrown as McpError.
ValidateParameters ==
  /\ inv.pc = "validate"
  /\ \E valid \in BOOLEAN, warnings \in 0..MaxWarnings :
       inv' = IF valid
                THEN [inv EXCEPT !.validated = TRUE, !.valid = TRUE, !.pc = "cli",
                        !.securityEvents = IF LogsWarnings(inv.tool) THEN warnings ELSE 0]
                ELSE [inv EXCEPT !.validated = TRUE, !.valid = FALSE, !.pc = "done",
                        !.securityEvents = IF LogsAccessDenied(inv.tool) THEN 1 ELSE 0,
                        !.resp = "error",
                        !.err = Surface([present |-> TRUE, mcp |-> TRUE,
                                         external |-> FALSE, masked |-> FALSE])]
  /\ UNCHANGED <<runVars, findVars, discVars, svcVars>>

\* The handler's first BrunoCLI call resolves or rejects.
CliCall ==
  /\ inv.pc = "cli"
  /\ \E ok \in BOOLEAN, external \in BOOLEAN, listed \in 0..MaxListed :
       LET op == HandlerOp(inv.tool, inv.dryRun)
           ops == Append(inv.cliOps, op)
           raised == [present |-> TRUE, mcp |-> FALSE, external |-> external,
                      masked |-> FALSE]
       IN inv' =
            IF ~ok
              THEN [inv EXCEPT !.cliOps = ops, !.pc = "done", !.resp = "error",
                      !.err = Surface(HandlerError(inv.tool, inv.dryRun, raised))]
            ELSE IF op = "listRequests" /\ inv.dryRun /\ listed > 0
              THEN [inv EXCEPT !.cliOps = ops, !.pc = "details", !.remaining = listed]
            ELSE [inv EXCEPT !.cliOps = ops, !.pc = "done", !.resp = "content"]
  /\ UNCHANGED <<runVars, findVars, discVars, svcVars>>

\* run-collection dry run: one getRequestDetails per listed request; a
\* failure is written into the output and the loop goes on.
DryRunDetails ==
  /\ inv.pc = "details"
  /\ \E ok \in BOOLEAN :
       LET ops == Append(inv.cliOps, "getRequestDetails")
           left == inv.remaining - 1
       IN inv' = [inv EXCEPT !.cliOps = ops, !.remaining = left,
                    !.failedOps = IF ok THEN @ ELSE @ + 1,
                    !.pc = IF left = 0 THEN "done" ELSE "details",
                    !.resp = IF left = 0 THEN "content" ELSE "none"]
  /\ UNCHANGED <<runVars, findVars, discVars, svcVars>>

\* The transport has sent the response; the next call is accepted.
Respond ==
  /\ inv.pc = "done"
  /\ inv' = IdleInv
  /\ UNCHANGED <<runVars, findVars, discVars, svcVars>>

(***************************************************************************)
(* CollectionDiscoveryService.findRequestFile                              *)
(***************************************************************************)
\* Request names are strings over a small alphabet with both letter cases.
Alphabet == {"f", "F"}
Strings(n) == UNION {[1..k -> Alphabet] : k \in 0..n}
RequestNames == Strings(MaxNameLen) \ {<<>>}

\* String.prototype.toLowerCase.
UpperCase == <<"A", "B", "C", "D", "E", "F", "G", "H", "I", "J", "K", "L", "M", "N",
              "O", "P", "Q", "R", "S", "T", "U", "V", "W", "X", "Y", "Z">>
LowerCase == <<"a", "b", "c", "d", "e", "f", "g", "h", "i", "j", "k", "l", "m", "n",
              "o", "p", "q", "r", "s", "t", "u", "v", "w", "x", "y", "z">>
LowerChar(ch) ==
  IF \E i \in 1..Len(UpperCase) : UpperCase[i] = ch
    THEN LowerCase[CHOOSE i \in 1..Len(UpperCase) : UpperCase[i] = ch]
    ELSE ch
ToLowerCase(str) == [i \in 1..Len(str) |-> LowerChar(str[i])]

\* String.prototype.includes: a contiguous, case-sensitive occurrence.
Includes(str, part) ==
  \E k \in 0..(Len(str) - Len(part)) :
    \A i \in 1..Len(part) : str[k + i] = part[i]

\* Array.prototype.find as the index of the first element in the set of
\* matching indices, 0 when there is none.
FirstIndex(matching) ==
  IF matching = {} THEN 0 ELSE CHOOSE i \in matching : \A j \in matching : i <= j

\* A lookup that tries the substring match before the case-insensitive one.
FindRequestFileSubstringFirst(reqs, name) ==
  LET exact == FirstIndex({i \in 1..Len(reqs) : reqs[i].name = name})
      partial == FirstIndex({i \in 1..Len(reqs) : Includes(reqs[i].name, name)})
      insensitive ==
        FirstIndex({i \in 1..Len(reqs) : ToLowerCase(reqs[i].name) = ToLowerCase(name)})
      request == IF exact # 0 THEN exact
                 ELSE IF partial # 0 THEN partial ELSE insensitive
  IN IF request = 0 THEN 0 ELSE reqs[request].path

\* findRequestFile over the records findBrunoRequests returned: the path of
\* the request found, 0 for null.
FindRequestFile(reqs, name) ==
  LET exact == FirstIndex({i \in 1..Len(reqs) : reqs[i].name = name})
      insensitive ==
        FirstIndex({i \in 1..Len(reqs) : ToLowerCase(reqs[i].name) = ToLowerCase(name)})
      partial == FirstIndex({i \in 1..Len(reqs) : Includes(reqs[i].name, name)})
      request == IF exact # 0 THEN exact
                 ELSE IF insensitive # 0 THEN insensitive ELSE partial
  IN IF request = 0 THEN 0 ELSE reqs[request].path

\* The records of a collection in discovery order; each file has its own path.
RequestLists ==
  UNION {{[i \in 1..n |-> [name |-> names[i], path |-> i]] : names \in [1..n -> RequestNames]}
           : n \in 0..MaxRequests}

FindIdle ==
  /\ requests = <<>>
  /\ requestName = <<>>
  /\ foundPath = 0
  /\ findPc = "idle"

\* One findRequestFile call on the collection.
FindRequest ==
  /\ findPc = "ready"
  /\ \E name \in Strings(MaxNameLen) :
       /\ requestName' = name
       /\ foundPath' = FindRequestFile(requests, name)
  /\ findPc' = "done"
  /\ UNCHANGED <<requests, runVars, toolVars, discVars, svcVars>>

\* The caller has taken the path; the next lookup may start.
FindReturn ==
  /\ findPc = "done"
  /\ findPc' = "ready"
  /\ requestName' = <<>>
  /\ foundPath' = 0
  /\ UNCHANGED <<requests, runVars, toolVars, discVars, svcVars>>

(***************************************************************************)
(* CollectionDiscoveryService.discoverCollections                          *)
(***************************************************************************)
DepthCap == 10
DefaultMaxDepth == 5
TreeDepth == DepthCap + 2

\* Directories are paths from the search root: the sequence of entry
\* positions.  The trees are a chain deeper than the cap with one side
\* directory next to its first link.
Spine(k) == [i \in 1..k |-> 1]
Directories == {Spine(k) : k \in 0..TreeDepth} \cup {<<2>>}
SearchRoot == <<>>

\* bruno.json in at most MaxRoots directories; at most one directory is
\* unreadable, hidden (name starts with a dot) or named node_modules.
Marks ==
  {[dir |-> <<>>, kind |-> "none"]}
    \cup [dir : Directories, kind : {"unreadable", "hidden", "node_modules"}]
Trees ==
  [manifests : {m \in SUBSET Directories : Cardinality(m) <= MaxRoots},
   mark : Marks]

RequestedDepths == {1, DefaultMaxDepth, DepthCap + 1, 999}

Min(a, b) == IF a < b THEN a ELSE b

Readable(t, dir) == ~(t.mark.kind = "unreadable" /\ t.mark.dir = dir)
HasBrunoJson(t, dir) == dir \in t.manifests
EntryName(t, dir) ==
  IF t.mark.dir = dir /\ t.mark.kind \in {"hidden", "node_modules"}
    THEN t.mark.kind ELSE "plain"

\* readdir: the subdirectories in entry order.
Entries(dir) ==
  LET kids == {d \in Directories : Len(d) = Len(dir) + 1 /\ SubSeq(d, 1, Len(dir)) = dir}
      positions == {d[Len(d)] : d \in kids}
  IN [i \in 1..Cardinality(kids) |->
        CHOOSE d \in kids : Cardinality({q \in positions : q <= d[Len(d)]}) = i]

NoSearch == [found |-> <<>>, read |-> {}]

RECURSIVE SearchDirectory(_, _, _, _)
RECURSIVE SearchEntries(_, _, _, _, _)

\* A walk that records a collection and still descends into it.
SearchDirectoryIntoCollections(t, dirPath, currentDepth, maxSearchDepth) ==
  IF currentDepth > maxSearchDepth THEN NoSearch
  ELSE IF ~Readable(t, dirPath) THEN [found |-> <<>>, read |-> {dirPath}]
  ELSE LET below == SearchEntries(t, Entries(dirPath), 1, currentDepth, maxSearchDepth)
           here == IF HasBrunoJson(t, dirPath) THEN <<dirPath>> ELSE <<>>
       IN [found |-> here \o below.found, read |-> {dirPath} \cup below.read]

\* searchDirectory: the collections pushed and the directories readdir was
\* called on, in a subtree.
SearchDirectory(t, dirPath, currentDepth, maxSearchDepth) ==
  IF currentDepth > maxSearchDepth THEN NoSearch
  ELSE IF ~Readable(t, dirPath) THEN [found |-> <<>>, read |-> {dirPath}]
  ELSE IF HasBrunoJson(t, dirPath) THEN [found |-> <<dirPath>>, read |-> {dirPath}]
  ELSE LET below == SearchEntries(t, Entries(dirPath), 1, currentDepth, maxSearchDepth)
       IN [found |-> below.found, read |-> {dirPath} \cup below.read]

\* A loop that an unreadable subdirectory ends: the entries after it are not
\* searched.
SearchEntriesUntilUnreadable(t, entries, i, currentDepth, maxSearchDepth) ==
  IF i > Len(entries) THEN NoSearch
  ELSE LET name == EntryName(t, entries[i])
           here == IF name # "hidden" /\ name # "node_modules"
                     THEN SearchDirectory(t, entries[i], currentDepth + 1, maxSearchDepth)
                     ELSE NoSearch
           rest == IF ~Readable(t, entries[i]) THEN NoSearch
                   ELSE SearchEntries(t, entries, i + 1, currentDepth, maxSearchDepth)
       IN [found |-> here.found \o rest.found, read |-> here.read \cup rest.read]

\* The for loop over the entries from position i on.
SearchEntries(t, entries, i, currentDepth, maxSearchDepth) ==
  IF i > Len(entries) THEN NoSearch
  ELSE LET name == EntryName(t, entries[i])
           here == IF name # "hidden" /\ name # "node_modules"
                     THEN SearchDirectory(t, entries[i], currentDepth + 1, maxSearchDepth)
                     ELSE NoSearch
           rest == SearchEntries(t, entries, i + 1, currentDepth, maxSearchDepth)
       IN [found |-> here.found \o rest.found, read |-> here.read \cup rest.read]

\* A walk whose depth limit is the requested depth, uncapped.
MaxSearchDepthUncapped(maxDepth) == maxDepth

\* Math.min(maxDepth, 10).
MaxSearchDepth(maxDepth) == Min(maxDepth, DepthCap)

NoDiscovery ==
  [pc |-> "idle", maxDepth |-> 0, cached |-> FALSE, collections |-> <<>>, read |-> {}]

\* The discovery cache entry for the search path: absent, or a list.
NoEntry == [present |-> FALSE, value |-> <<>>]
GetCachedCollectionDiscovery(cache) == cache
CacheCollectionDiscovery(collections) == [present |-> TRUE, value |-> collections]

DiscIdle ==
  /\ tree = [manifests |-> {}, mark |-> [dir |-> <<>>, kind |-> "none"]]
  /\ discoveryCache = NoEntry
  /\ discovery = NoDiscovery

\* One discoverCollections(searchPath, maxDepth) call.
DiscoverCollections ==
  /\ discovery.pc = "idle"
  /\ \E maxDepth \in RequestedDepths :
       LET cached == GetCachedCollectionDiscovery(discoveryCache)
           walk == SearchDirectory(tree, SearchRoot, 0, MaxSearchDepth(maxDepth))
       IN IF cached.present
            THEN /\ discovery' = [pc |-> "done", maxDepth |-> maxDepth, cached |-> TRUE,
                                  collections |-> cached.value, read |-> {}]
                 /\ UNCHANGED discoveryCache
            ELSE /\ discovery' = [pc |-> "done", maxDepth |-> maxDepth, cached |-> FALSE,
                                  collections |-> walk.found, read |-> walk.read]
                 /\ discoveryCache' = CacheCollectionDiscovery(walk.found)
  /\ UNCHANGED <<tree, runVars, toolVars, findVars, svcVars>>

\* The caller has taken the list.
DiscoverReturn ==
  /\ discovery.pc = "done"
  /\ discovery' = NoDiscovery
  /\ UNCHANGED <<tree, discoveryCache, runVars, toolVars, findVars, svcVars>>

\* The cache entry's time to live has passed.
ExpireDiscoveryCache ==
  /\ discoveryCache.present
  /\ discoveryCache' = NoEntry
  /\ UNCHANGED <<tree, discovery, runVars, toolVars, findVars, svcVars>>

(***************************************************************************)
(* Run calls: one action per stretch of code between two awaits            *)
(***************************************************************************)
NoOtherCallActive(c) == \A d \in Calls \ {c} : calls[d].pc = "idle"

\* A temp path that is the same for every invocation.
TempFileShared(uuid) == 1

\* path.join(tmpdir(), `bruno-result-${randomUUID()}.json`): one path per
\* identifier; randomUUID is modelled as a counter, so no identifier repeats.
TempFile(uuid) == uuid

\* runRequest up to the execa call: findRequestFile, then the temp path.
StartRunRequest(c) ==
  /\ calls[c].pc = "idle"
  /\ \E found \in {"found", "absent", "ioerror"}, custom \in BOOLEAN :
        IF found = "found"
          THEN /\ nextUuid <= MaxUuid
               /\ calls' = [calls EXCEPT ![c] =
                     [IdleCall EXCEPT !.pc = "exec", !.op = "runRequest",
                                      !.custom = custom,
                                      !.tempFile = TempFile(nextUuid)]]
               /\ nextUuid' = nextUuid + 1
          ELSE /\ calls' = [calls EXCEPT ![c] =
                     [IdleCall EXCEPT !.pc = "done", !.op = "runRequest",
                                      !.custom = custom,
                                      !.outcome = PlainError(IF found = "absent"
                                                               THEN "RequestNotFound"
                                                               ELSE "IOError")]]
               /\ nextUuid' = nextUuid
  /\ UNCHANGED files
  /\ UNCHANGED <<toolVars, findVars, discVars, svcVars>>

\* One run call at a time: runRequest starts while no other call is in flight.
BeginRunRequest(c) == NoOtherCallActive(c) /\ StartRunRequest(c)

\* runCollection up to the execa call.
StartRunCollection(c) ==
  /\ calls[c].pc = "idle"
  /\ nextUuid <= MaxUuid
  /\ \E custom \in BOOLEAN :
        calls' = [calls EXCEPT ![c] =
          [IdleCall EXCEPT !.pc = "exec", !.op = "runCollection",
                           !.custom = custom, !.tempFile = TempFile(nextUuid)]]
  /\ nextUuid' = nextUuid + 1
  /\ UNCHANGED files
  /\ UNCHANGED <<toolVars, findVars, discVars, svcVars>>

\* One run call at a time: runCollection starts while no other call is in flight.
BeginRunCollection(c) == NoOtherCallActive(c) /\ StartRunCollection(c)

\* execa resolves: the runner has (or has not) written the --output file, and
\* the service runs up to its next await (readFile, or unlink in the catch).
RunnerExitWith(c, spawnOk, duration, exit, err, out, w) ==
  /\ calls[c].pc = "exec"
  /\ LET res == ExecaResult(calls[c].op, spawnOk, duration, exit, err, out)
         written == IF spawnOk THEN w ELSE NoContent
     IN /\ files' = [files EXCEPT ![calls[c].tempFile] = written]
        /\ calls' = [calls EXCEPT ![c].res = res, ![c].wrote = written,
              ![c].pc = IF ThrowsResult(calls[c].op, res)
                          THEN "cleanupThrow"
                        ELSE IF calls[c].custom THEN "cleanup" ELSE "read"]
  /\ UNCHANGED nextUuid
  /\ UNCHANGED <<toolVars, findVars, discVars, svcVars>>

RunnerExit(c) ==
  /\ calls[c].pc = "exec"
  /\ \E spawnOk \in BOOLEAN, duration \in 0..MaxDuration, exit \in ExitCodes,
        err \in StderrValues, out \in Contents, w \in Contents :
        RunnerExitWith(c, spawnOk, duration, exit, err, out, w)

\* The same step for a runner that stays within its timeout and prints
\* nothing: what it exits with and what it writes to --output stay free.
RunnerExitQuietly(c) ==
  /\ calls[c].pc = "exec"
  /\ \E exit \in ExitCodes, w \in Contents :
        RunnerExitWith(c, TRUE, 0, exit, {}, NoContent, w)

\* readJsonOutput without custom reporters: the readFile await.
ReadOutput(c) ==
  /\ calls[c].pc = "read"
  /\ calls' = [calls EXCEPT ![c].json = ReadJsonOutput(files, calls[c].tempFile, FALSE),
                             ![c].pc = "cleanup"]
  /\ UNCHANGED <<files, nextUuid>>
  /\ UNCHANGED <<toolVars, findVars, discVars, svcVars>>

\* Success path: cleanupTempFile, then parseRunResult and return.
CleanupAndReturn(c) ==
  /\ calls[c].pc = "cleanup"
  /\ files' = CleanupTempFile(files, calls[c].tempFile)
  /\ calls' = [calls EXCEPT ![c].pc = "done",
                             ![c].outcome = ParseRunResult(calls[c].res, calls[c].json)]
  /\ UNCHANGED nextUuid
  /\ UNCHANGED <<toolVars, findVars, discVars, svcVars>>

\* Catch path: cleanupTempFile, rethrow, and the facade's handleError.
CleanupAndThrow(c) ==
  /\ calls[c].pc = "cleanupThrow"
  /\ files' = CleanupTempFile(files, calls[c].tempFile)
  /\ calls' = [calls EXCEPT ![c].pc = "done",
                             ![c].outcome = HandleError(calls[c].res)]
  /\ UNCHANGED nextUuid
  /\ UNCHANGED <<toolVars, findVars, discVars, svcVars>>

\* The caller has consumed the result; the call slot is free again.
Retire(c) ==
  /\ calls[c].pc = "done"
  /\ calls' = [calls EXCEPT ![c] = IdleCall]
  /\ UNCHANGED <<files, nextUuid>>
  /\ UNCHANGED <<toolVars, findVars, discVars, svcVars>>

(***************************************************************************)
(* CollectionDiscoveryService.listRequests                                 *)
(***************************************************************************)
\* The collection paths callers pass in.
CollectionPaths == {"a", "b"}

\* What is on disk at a path: nothing, a plain file, or a directory with a
\* marker file (or none) and a number of request files below it.
Markers == {"none", "bruno.json", "collection.bru"}
Missing == [kind |-> "missing", marker |-> "none", requests |-> 0]
PlainFile == [kind |-> "file", marker |-> "none", requests |-> 0]
PathStates ==
  {Missing, PlainFile}
    \cup [kind : {"directory"}, marker : Markers, requests : 0..MaxListed]

\* The request-list cache: per path, absent or the list stored (its length).
NoList == [present |-> FALSE, value |-> 0]
GetCachedRequestList(cache, path) == cache[path]
CacheRequestList(cache, path, reqs) ==
  [cache EXCEPT ![path] = [present |-> TRUE, value |-> reqs]]

\* hasCollectionFile: bruno.json or collection.bru is accessible.
HasCollectionFile(st) == st.marker = "bruno.json" \/ st.marker = "collection.bru"

\* How the readdir/readFile calls of the traversal end.
Traversals == {"ok", "EACCES", "ENOENT"}

\* findBrunoRequests: the request files found below the directory.
FindBrunoRequests(st) == st.requests

ListThrown(message, cache) ==
  [status |-> "thrown", message |-> message, value |-> 0, cache |-> cache]

\* A listing that stores the list before it has checked the marker file.
ListRequestsCachingEarly(cache, path, st, traversal) ==
  LET cached == GetCachedRequestList(cache, path)
      stored == CacheRequestList(cache, path, FindBrunoRequests(st))
  IN IF cached.present
       THEN [status |-> "returned", message |-> "none", value |-> cached.value,
             cache |-> cache]
     ELSE IF st.kind = "missing" THEN ListThrown("Collection not found", cache)
     ELSE IF st.kind # "directory"
       THEN ListThrown("Collection path is not a directory", cache)
     ELSE IF ~HasCollectionFile(st)
       THEN ListThrown("Not a valid Bruno collection", stored)
     ELSE IF traversal = "ENOENT" THEN ListThrown("Collection not found", stored)
     ELSE IF traversal # "ok" THEN ListThrown(traversal, stored)
     ELSE [status |-> "returned", message |-> "none",
           value |-> FindBrunoRequests(st), cache |-> stored]

\* listRequests: the cache first, then stat, the marker check, the traversal
\* and the cache write; an ENOENT from any step is reworded.
ListRequests(cache, path, st, traversal) ==
  LET cached == GetCachedRequestList(cache, path)
  IN IF cached.present
       THEN [status |-> "returned", message |-> "none", value |-> cached.value,
             cache |-> cache]
     ELSE IF st.kind = "missing" THEN ListThrown("Collection not found", cache)
     ELSE IF st.kind # "directory"
       THEN ListThrown("Collection path is not a directory", cache)
     ELSE IF ~HasCollectionFile(st)
       THEN ListThrown("Not a valid Bruno collection", cache)
     ELSE IF traversal = "ENOENT" THEN ListThrown("Collection not found", cache)
     ELSE IF traversal # "ok" THEN ListThrown(traversal, cache)
     ELSE [status |-> "returned", message |-> "none",
           value |-> FindBrunoRequests(st),
           cache |-> CacheRequestList(cache, path, FindBrunoRequests(st))]

NoListing ==
  [pc |-> "idle", path |-> "a", hit |-> FALSE, status |-> "none",
   message |-> "none", value |-> 0,
   before |-> [p \in CollectionPaths |-> NoList]]

ListIdle ==
  /\ pathState = [p \in CollectionPaths |-> Missing]
  /\ requestListCache = [p \in CollectionPaths |-> NoList]
  /\ listing = NoListing

\* One listRequests(collectionPath) call.
ListRequestsCall ==
  /\ listing.pc = "idle"
  /\ \E path \in CollectionPaths, traversal \in Traversals :
       LET out == ListRequests(requestListCache, path, pathState[path], traversal)
       IN /\ listing' = [pc |-> "done", path |-> path,
                         hit |-> requestListCache[path].present,
                         status |-> out.status, message |-> out.message,
                         value |-> out.value, before |-> requestListCache]
          /\ requestListCache' = out.cache
  /\ UNCHANGED pathState
  /\ UNCHANGED notListVars

\* The caller has taken the list or the error.
ListReturn ==
  /\ listing.pc = "done"
  /\ listing' = NoListing
  /\ UNCHANGED <<pathState, requestListCache>>
  /\ UNCHANGED notListVars

\* Between two calls the files at a path are created, changed or removed.
ChangeCollection ==
  /\ listing.pc = "idle"
  /\ \E path \in CollectionPaths, st \in PathStates :
       /\ st # pathState[path]
       /\ pathState' = [pathState EXCEPT ![path] = st]
  /\ UNCHANGED <<requestListCache, listing>>
  /\ UNCHANGED notListVars

\* A request-list cache entry's time to live has passed.
ExpireRequestListCache ==
  /\ listing.pc = "idle"
  /\ \E path \in CollectionPaths :
       /\ requestListCache[path].present
       /\ requestListCache' = [requestListCache EXCEPT ![path] = NoList]
  /\ UNCHANGED <<pathState, listing>>
  /\ UNCHANGED notListVars

(***************************************************************************)
(* ValidationService.validateCollection                                    *)
(***************************************************************************)
\* The CollectionValidationResult under construction.
NewResult ==
  [valid |-> TRUE, errors |-> <<>>, warnings |-> <<>>,
   summary |-> [hasBrunoJson |-> FALSE, totalRequests |-> 0, validRequests |-> 0,
                invalidRequests |-> 0, environments |-> 0]]

\* An error push that leaves result.valid as it is.
FailKeepingValid(result, message) ==
  [result EXCEPT !.errors = Append(@, message)]

\* result.errors.push(message); result.valid = false.
Fail(result, message) ==
  [result EXCEPT !.valid = FALSE, !.errors = Append(@, message)]

\* result.warnings.push(message).
Warn(result, message) == [result EXCEPT !.warnings = Append(@, message)]

\* How a stretch of validateCollection ends: with the result so far, having
\* returned it, or having let an exception out.
Stage(result, returns, raised) ==
  [result |-> result, returns |-> returns, raised |-> raised]

\* bruno.json as the manifest check finds it: no such file, a file that
\* cannot be read, text JSON.parse (or the field reads) reject, or an object
\* with truthy or falsy version and name and a type.
ManifestStates ==
  [file : {"absent", "unreadable", "invalid"}, version : {FALSE}, name : {FALSE},
   type : {"missing"}]
    \cup [file : {"json"}, version : BOOLEAN, name : BOOLEAN,
          type : {"missing", "collection", "other"}]

\* What listRequests and the getRequestDetails calls do: the listing fails,
\* or lists requests whose detail fetch succeeds or not.
RequestListings ==
  [ok : {FALSE}, details : {<<>>}]
    \cup [ok : {TRUE}, details : UNION {[1..n -> BOOLEAN] : n \in 0..MaxRequests}]

\* What validateEnvironment does for one environment: it raises, or reports.
EnvironmentReports ==
  {[raises |-> TRUE, valid |-> FALSE, warnings |-> <<>>]}
    \cup [raises : {FALSE}, valid : BOOLEAN,
          warnings : {<<>>, <<"No variables defined in environment">>}]

\* What listEnvironments and the validateEnvironment calls do.
EnvironmentListings ==
  [ok : {FALSE}, envs : {<<>>}]
    \cup [ok : {TRUE},
          envs : UNION {[1..n -> EnvironmentReports] : n \in 0..MaxEnvironments}]

\* fs.access on the collection directory.
AccessStage(result, exists) ==
  IF exists THEN Stage(result, FALSE, FALSE)
  ELSE Stage(Fail(result, "Collection directory not found"), TRUE, FALSE)

\* The required-field checks on the parsed bruno.json.
ManifestFields(result, m) ==
  LET v == IF m.version THEN result
           ELSE Warn(result, "bruno.json missing \"version\" field")
      n == IF m.name THEN v ELSE Warn(v, "bruno.json missing \"name\" field")
  IN IF m.type = "missing" THEN Warn(n, "bruno.json missing \"type\" field")
     ELSE IF m.type # "collection" THEN Fail(n, "Invalid type in bruno.json")
     ELSE n

\* A manifest check that goes on to the later stages without bruno.json.
ManifestStageContinuing(result, m) ==
  LET seen == [result EXCEPT !.summary.hasBrunoJson = TRUE]
  IN IF m.file = "absent"
       THEN Stage(Fail(result, "bruno.json not found in collection root"), FALSE, FALSE)
     ELSE IF m.file = "unreadable"
       THEN Stage(Fail(seen, "bruno.json not found in collection root"), TRUE, FALSE)
     ELSE IF m.file = "invalid"
       THEN Stage(Fail(seen, "Invalid JSON in bruno.json"), FALSE, FALSE)
     ELSE Stage(ManifestFields(seen, m), FALSE, FALSE)

\* The bruno.json check: access, readFile, JSON.parse, the field checks.  A
\* failed access or read returns the result at once.
ManifestStage(result, m) ==
  LET seen == [result EXCEPT !.summary.hasBrunoJson = TRUE]
  IN IF m.file = "absent"
       THEN Stage(Fail(result, "bruno.json not found in collection root"), TRUE, FALSE)
     ELSE IF m.file = "unreadable"
       THEN Stage(Fail(seen, "bruno.json not found in collection root"), TRUE, FALSE)
     ELSE IF m.file = "invalid"
       THEN Stage(Fail(seen, "Invalid JSON in bruno.json"), FALSE, FALSE)
     ELSE Stage(ManifestFields(seen, m), FALSE, FALSE)

RECURSIVE ValidateEachRequest(_, _, _)
\* A loop that counts a request as valid before its details are fetched.
ValidateEachRequestCountingFirst(result, details, i) ==
  IF i > Len(details) THEN result
  ELSE LET counted == [result EXCEPT !.summary.validRequests = @ + 1]
       IN IF details[i]
            THEN ValidateEachRequest(counted, details, i + 1)
          ELSE ValidateEachRequest(
                 Fail([counted EXCEPT !.summary.invalidRequests = @ + 1],
                      "Invalid request"),
                 details, i + 1)

\* The for loop over the listed requests from position i on.
ValidateEachRequest(result, details, i) ==
  IF i > Len(details) THEN result
  ELSE IF details[i]
    THEN ValidateEachRequest([result EXCEPT !.summary.validRequests = @ + 1],
                             details, i + 1)
  ELSE ValidateEachRequest(
         Fail([result EXCEPT !.summary.invalidRequests = @ + 1], "Invalid request"),
         details, i + 1)

\* The request stage: listRequests, then getRequestDetails per request, each
\* in its own try block inside the stage's try block.
RequestsStage(result, listed) ==
  IF ~listed.ok THEN Stage(Fail(result, "Failed to list requests"), FALSE, FALSE)
  ELSE LET counted == [result EXCEPT !.summary.totalRequests = Len(listed.details)]
           noted == IF Len(listed.details) = 0
                      THEN Warn(counted, "Collection contains no requests")
                      ELSE counted
       IN Stage(ValidateEachRequest(noted, listed.details, 1), FALSE, FALSE)

RECURSIVE PushWarnings(_, _, _)
\* validation.warnings.forEach(w => result.warnings.push(...)).
PushWarnings(result, warnings, i) ==
  IF i > Len(warnings) THEN result
  ELSE PushWarnings(Warn(result, "Environment: " \o warnings[i]), warnings, i + 1)

RECURSIVE ValidateEachEnvironment(_, _, _)
RECURSIVE ValidateEachEnvironmentStrictly(_, _, _)

\* A loop that counts an invalid environment as an error of the collection.
ValidateEachEnvironmentStrictly(result, envs, i) ==
  IF i > Len(envs) THEN result
  ELSE IF envs[i].raises THEN Warn(result, "Could not validate environments")
  ELSE LET issues == IF envs[i].valid THEN result
                     ELSE Fail(result, "Environment has issues")
       IN ValidateEachEnvironmentStrictly(PushWarnings(issues, envs[i].warnings, 1),
                                          envs, i + 1)

\* The for loop over the listed environments from position i on; a raising
\* validateEnvironment ends it in the stage's catch.
ValidateEachEnvironment(result, envs, i) ==
  IF i > Len(envs) THEN result
  ELSE IF envs[i].raises THEN Warn(result, "Could not validate environments")
  ELSE LET issues == IF envs[i].valid THEN result
                     ELSE Warn(result, "Environment has issues")
       IN ValidateEachEnvironment(PushWarnings(issues, envs[i].warnings, 1),
                                  envs, i + 1)

\* An environment stage without its try block: a failed listEnvironments or a
\* raising validateEnvironment leaves validateCollection as an exception.
EnvironmentsStageUncaught(result, listed) ==
  IF ~listed.ok THEN Stage(result, FALSE, TRUE)
  ELSE IF \E i \in 1..Len(listed.envs) : listed.envs[i].raises
    THEN Stage(result, FALSE, TRUE)
  ELSE LET counted == [result EXCEPT !.summary.environments = Len(listed.envs)]
           noted == IF Len(listed.envs) = 0
                      THEN Warn(counted, "No environments found in collection")
                      ELSE counted
       IN Stage(ValidateEachEnvironment(noted, listed.envs, 1), TRUE, FALSE)

\* The environment stage: listEnvironments, then validateEnvironment per
\* environment, all in one try block.
EnvironmentsStage(result, listed) ==
  IF ~listed.ok THEN Stage(Warn(result, "Could not validate environments"), TRUE, FALSE)
  ELSE LET counted == [result EXCEPT !.summary.environments = Len(listed.envs)]
           noted == IF Len(listed.envs) = 0
                      THEN Warn(counted, "No environments found in collection")
                      ELSE counted
       IN Stage(ValidateEachEnvironment(noted, listed.envs, 1), TRUE, FALSE)

NoManifest == [file |-> "absent", version |-> FALSE, name |-> FALSE, type |-> "missing"]
NoRequestListing == [ok |-> FALSE, details |-> <<>>]
NoEnvironmentListing == [ok |-> FALSE, envs |-> <<>>]

\* A validateCollection call: where it stands, the stages it has run, what
\* each stage met, and the result before the environment stage.
NoValidation ==
  [pc |-> "idle", status |-> "none", stages |-> <<>>, result |-> NewResult,
   rootExists |-> FALSE, manifest |-> NoManifest, listed |-> NoRequestListing,
   envs |-> NoEnvironmentListing, before |-> NewResult]

\* The state of a call after a stage: returned, raised, or at the next stage.
AfterStage(v, name, out, next) ==
  [v EXCEPT !.stages = Append(@, name),
            !.result = out.result,
            !.status = IF out.raised THEN "thrown"
                       ELSE IF out.returns THEN "returned" ELSE "none",
            !.pc = IF out.raised \/ out.returns THEN "done" ELSE next]

(***************************************************************************)
(* EnvironmentService.validateEnvironment                                  *)
(***************************************************************************)
\* Environment files hold variables with these names and values, written as
\* sequences of characters.
ApiKey == <<"A", "P", "I", "_", "K", "E", "Y">>
ApiToken == <<"A", "P", "I", "_", "T", "O", "K", "E", "N">>
EnvKeys == {ApiKey, ApiToken}

TemplateValue == <<"{", "{", "s", "e", "c", "r", "e", "t", "}", "}">>
LiteralValue == <<"s", "k", "_", "l", "i", "v", "e", "_", "1", "2", "3">>
ProcessValue == <<"$", "S", "E", "C", "R", "E", "T">>
EnvValues == {TemplateValue, LiteralValue, ProcessValue}

\* The text of an environment file: how the vars block opens ("vars {", an
\* opening the block regex accepts but the marker test does not, or not at
\* all), whether a closing brace follows the variable lines, and the
\* "name: value" lines in between.
EnvLines == [key : EnvKeys, value : EnvValues]
EnvContents ==
  [header : {"none", "vars {", "vars{"}, closed : BOOLEAN,
   lines : UNION {[1..n -> EnvLines] : n \in 0..MaxVars}]

\* String.prototype.startsWith.
StartsWith(str, prefix) ==
  Len(prefix) <= Len(str) /\ SubSeq(str, 1, Len(prefix)) = prefix

\* The part of a text before its first closing brace; all of it without one.
BeforeBrace(str) ==
  LET braces == {i \in 1..Len(str) : str[i] = "}"}
  IN IF braces = {} THEN str ELSE SubSeq(str, 1, FirstIndex(braces) - 1)

HasBrace(str) == \E i \in 1..Len(str) : str[i] = "}"

RECURSIVE Assign(_, _, _)
\* variables[key] = value, line after line: a repeated key keeps its place
\* and takes the later value.
Assign(variables, lines, i) ==
  IF i > Len(lines) THEN variables
  ELSE LET at == FirstIndex({k \in 1..Len(variables) : variables[k].key = lines[i].key})
           next == IF at = 0 THEN Append(variables, lines[i])
                   ELSE [variables EXCEPT ![at].value = lines[i].value]
       IN Assign(next, lines, i + 1)

\* parseEnvironmentVariables: the block is what /vars\s*\{([^}]*)\}/ captures,
\* that is the text up to the first closing brace after the opening, wherever
\* it stands; each "name: value" line of it is a variable.
ParseEnvironmentVariables(content) ==
  LET cut == FirstIndex({i \in 1..Len(content.lines) : HasBrace(content.lines[i].value)})
      whole == [i \in 1..(cut - 1) |-> content.lines[i]]
      last == [key |-> content.lines[cut].key,
               value |-> BeforeBrace(content.lines[cut].value)]
  IN IF content.header = "none" THEN <<>>
     ELSE IF cut = 0
       THEN IF content.closed THEN Assign(<<>>, content.lines, 1) ELSE <<>>
     ELSE Assign(<<>>, Append(whole, last), 1)

Password == <<"p", "a", "s", "s", "w", "o", "r", "d">>
Secret == <<"s", "e", "c", "r", "e", "t">>
Token == <<"t", "o", "k", "e", "n">>

\* The key test of the hardcoded-data check.
SensitiveKey(key) ==
  \/ Includes(ToLowerCase(key), Password)
  \/ Includes(ToLowerCase(key), Secret)
  \/ Includes(ToLowerCase(key), Token)

\* The value test: a non-empty value that starts with neither "{{" nor "$".
LooksHardcoded(value) ==
  /\ value # <<>>
  /\ ~StartsWith(value, <<"{", "{">>)
  /\ ~StartsWith(value, <<"$">>)

EnvWarning(text, key) == [text |-> text, key |-> key]
HardcodedWarning(key) == EnvWarning("may contain hardcoded sensitive data", key)

RECURSIVE CheckSensitive(_, _, _)
\* The for loop over Object.entries(result.variables) from position i on.
CheckSensitive(warnings, variables, i) ==
  IF i > Len(variables) THEN warnings
  ELSE IF SensitiveKey(variables[i].key) /\ LooksHardcoded(variables[i].value)
    THEN CheckSensitive(Append(warnings, HardcodedWarning(variables[i].key)),
                        variables, i + 1)
  ELSE CheckSensitive(warnings, variables, i + 1)

\* An environment file as validateEnvironment meets it.
EnvFiles ==
  [exists : {FALSE}, readable : {FALSE},
   content : {[header |-> "none", closed |-> FALSE, lines |-> <<>>]}]
    \cup [exists : {TRUE}, readable : {FALSE},
          content : {[header |-> "none", closed |-> FALSE, lines |-> <<>>]}]
    \cup [exists : {TRUE}, readable : {TRUE}, content : EnvContents]

NewEnvResult ==
  [valid |-> TRUE, exists |-> FALSE, errors |-> <<>>, warnings |-> <<>>,
   hasVariables |-> FALSE, variables |-> <<>>, read |-> FALSE, raised |-> FALSE]

\* A validation that reports a missing file without marking it invalid.
ValidateEnvironmentKeepingValid(file) ==
  IF ~file.exists
    THEN [NewEnvResult EXCEPT !.errors = <<"Environment file not found">>]
  ELSE IF ~file.readable
    THEN [NewEnvResult EXCEPT !.exists = TRUE, !.read = TRUE, !.valid = FALSE,
                              !.errors = <<"Failed to read environment file">>]
  ELSE LET variables == ParseEnvironmentVariables(file.content)
           marker == IF file.content.header = "vars {" THEN <<>>
                     ELSE <<EnvWarning("no vars {} block", <<>>)>>
           empty == IF Len(variables) = 0
                      THEN Append(marker, EnvWarning("No variables defined", <<>>))
                      ELSE marker
       IN [NewEnvResult EXCEPT !.exists = TRUE, !.read = TRUE,
                               !.hasVariables = TRUE, !.variables = variables,
                               !.warnings = CheckSensitive(empty, variables, 1)]

\* validateEnvironment: fs.access, then readFile, the marker test, the parse,
\* the empty test and the hardcoded-data check inside one try block.
ValidateEnvironment(file) ==
  IF ~file.exists
    THEN [NewEnvResult EXCEPT !.valid = FALSE,
                              !.errors = <<"Environment file not found">>]
  ELSE IF ~file.readable
    THEN [NewEnvResult EXCEPT !.exists = TRUE, !.read = TRUE, !.valid = FALSE,
                              !.errors = <<"Failed to read environment file">>]
  ELSE LET variables == ParseEnvironmentVariables(file.content)
           marker == IF file.content.header = "vars {" THEN <<>>
                     ELSE <<EnvWarning("no vars {} block", <<>>)>>
           empty == IF Len(variables) = 0
                      THEN Append(marker, EnvWarning("No variables defined", <<>>))
                      ELSE marker
       IN [NewEnvResult EXCEPT !.exists = TRUE, !.read = TRUE,
                               !.hasVariables = TRUE, !.variables = variables,
                               !.warnings = CheckSensitive(empty, variables, 1)]

NoEnvFile ==
  [exists |-> FALSE, readable |-> FALSE,
   content |-> [header |-> "none", closed |-> FALSE, lines |-> <<>>]]

NoEnvValidation ==
  [pc |-> "idle", status |-> "none", file |-> NoEnvFile, result |-> NewEnvResult]

ValIdle ==
  /\ validation = NoValidation
  /\ envValidation = NoEnvValidation

\* One validateEnvironment(collectionPath, environmentName) call.
ValidateEnvironmentCall ==
  /\ validation.pc = "idle"
  /\ envValidation.pc = "idle"
  /\ \E file \in EnvFiles :
       LET out == ValidateEnvironment(file)
       IN envValidation' =
            [pc |-> "done", status |-> IF out.raised THEN "thrown" ELSE "returned",
             file |-> file, result |-> out]
  /\ UNCHANGED validation
  /\ UNCHANGED notValVars

\* The caller has taken the environment report.
ValidateEnvironmentReturn ==
  /\ envValidation.pc = "done"
  /\ envValidation' = NoEnvValidation
  /\ UNCHANGED validation
  /\ UNCHANGED notValVars

\* validateCollection up to the bruno.json check: fs.access on the root.
BeginValidateCollection ==
  /\ validation.pc = "idle"
  /\ envValidation.pc = "idle"
  /\ \E exists \in BOOLEAN :
       validation' = AfterStage([NoValidation EXCEPT !.rootExists = exists], "access",
                                AccessStage(NewResult, exists), "manifest")
  /\ UNCHANGED envValidation
  /\ UNCHANGED notValVars

\* The bruno.json check.
CheckManifest ==
  /\ validation.pc = "manifest"
  /\ \E m \in ManifestStates :
       validation' = AfterStage([validation EXCEPT !.manifest = m], "manifest",
                                ManifestStage(validation.result, m), "requests")
  /\ UNCHANGED envValidation
  /\ UNCHANGED notValVars

\* The request stage.
ValidateRequests ==
  /\ validation.pc = "requests"
  /\ \E listed \in RequestListings :
       validation' = AfterStage([validation EXCEPT !.listed = listed], "requests",
                                RequestsStage(validation.result, listed), "environments")
  /\ UNCHANGED envValidation
  /\ UNCHANGED notValVars

\* The environment stage and the return of the result.
ValidateEnvironments ==
  /\ validation.pc = "environments"
  /\ \E listed \in EnvironmentListings :
       validation' = AfterStage([validation EXCEPT !.envs = listed,
                                                   !.before = validation.result],
                                "environments",
                                EnvironmentsStage(validation.result, listed), "done")
  /\ UNCHANGED envValidation
  /\ UNCHANGED notValVars

\* The caller has taken the collection report.
ValidateCollectionReturn ==
  /\ validation.pc = "done"
  /\ validation' = NoValidation
  /\ UNCHANGED envValidation
  /\ UNCHANGED notValVars

(***************************************************************************)
(* ValidationService.getRequestDetails                                     *)
(***************************************************************************)
\* The method names tried, in the order of the methodBlocks array.
MethodBlocks == <<"get", "post", "put", "patch", "delete", "head", "options">>

\* String.prototype.toUpperCase on a method name.
ToUpperCase(method) ==
  [get |-> "GET", post |-> "POST", put |-> "PUT", patch |-> "PATCH",
   delete |-> "DELETE", head |-> "HEAD", options |-> "OPTIONS"][method]

\* The text of a request file: a sequence of "name {" openers, each with the
\* lines after it.  A block may or may not be followed by a closing line
\* ("}" at the start of a line), may hold an "auth: bearer" line, and a tests
\* block may hold a test("...") call.
BlockKinds == {"meta", "get", "post", "headers", "tests", "docs"}
Blocks ==
  [kind : BlockKinds, closed : BOOLEAN, auth : BOOLEAN, testCall : {FALSE}]
    \cup [kind : {"tests"}, closed : BOOLEAN, auth : BOOLEAN, testCall : {TRUE}]
RequestTexts == UNION {[1..n -> Blocks] : n \in 0..MaxBlocks}

\* A block match that does not ask for a closing line.
MatchStartUnclosed(text, name) ==
  FirstIndex({i \in 1..Len(text) : text[i].kind = name})

\* Where the pattern name\s*\{([\s\S]*?)\n\} matches: at the first opener of
\* that name with a closing line somewhere after it; 0 for no match.
MatchStart(text, name) ==
  FirstIndex({i \in 1..Len(text) :
                text[i].kind = name /\ \E j \in i..Len(text) : text[j].closed})

\* The blocks the captured group runs over: from the opener to the first
\* closing line, whichever block that line ends.
Captured(text, i) ==
  SubSeq(text, i, FirstIndex({j \in i..Len(text) : text[j].closed}))

\* The loop over methodBlocks: the first name of the array that matches.
FirstMethod(text) ==
  FirstIndex({k \in 1..Len(MethodBlocks) : MatchStart(text, MethodBlocks[k]) # 0})

\* The test names pushed: one per test("...") call in the captured group.
TestCalls(blocks) == Cardinality({i \in 1..Len(blocks) : blocks[i].testCall})

\* getRequestDetails after the file was read: the defaults, overwritten by
\* what the method block and the tests block give.
GetRequestDetails(text) ==
  LET k == FirstMethod(text)
      methodContent == Captured(text, MatchStart(text, MethodBlocks[k]))
      t == MatchStart(text, "tests")
  IN [method |-> IF k = 0 THEN "GET" ELSE ToUpperCase(MethodBlocks[k]),
      auth |-> IF k # 0 /\ \E i \in 1..Len(methodContent) : methodContent[i].auth
                 THEN "bearer" ELSE "none",
      tests |-> IF t = 0 THEN 0 ELSE TestCalls(Captured(text, t))]

NoDetails == [method |-> "none", auth |-> "none", tests |-> 0]
NoParsing ==
  [pc |-> "idle", readable |-> FALSE, text |-> <<>>, status |-> "none",
   details |-> NoDetails]

ParseIdle == parsing = NoParsing

\* One getRequestDetails(requestFilePath, requestName) call: readFile raises
\* or gives the text, which is then parsed.
GetRequestDetailsCall ==
  /\ parsing.pc = "idle"
  /\ \E readable \in BOOLEAN, text \in RequestTexts :
       parsing' =
         IF readable
           THEN [pc |-> "done", readable |-> TRUE, text |-> text,
                 status |-> "returned", details |-> GetRequestDetails(text)]
           ELSE [pc |-> "done", readable |-> FALSE, text |-> <<>>,
                 status |-> "thrown", details |-> NoDetails]
  /\ UNCHANGED notParseVars

\* The caller has taken the details or the error.
GetRequestDetailsReturn ==
  /\ parsing.pc = "done"
  /\ parsing' = NoParsing
  /\ UNCHANGED notParseVars

(***************************************************************************)
(* ToolRegistry                                                            *)
(***************************************************************************)
\* Handler objects: an identity and the name getName() returns.
RegistryNames == {"mock-tool-1", "mock-tool-2", "non-existent-tool"}
HandlerIds == 1..MaxHandlers
Handlers == [id : HandlerIds, name : RegistryNames]

\* Map.prototype.has on the handlers map, kept in insertion order.
HasHandler(map, name) == \E i \in 1..Len(map) : map[i].name = name

\* A register that sets the entry whether or not the name is taken.
RegisterOverwriting(map, handler) ==
  LET at == FirstIndex({i \in 1..Len(map) : map[i].name = handler.name})
  IN [handlers |-> IF at = 0 THEN Append(map, handler)
                   ELSE [map EXCEPT ![at] = handler],
      thrown |-> FALSE]

\* register: a taken name raises "already registered", a free one is set.
Register(map, handler) ==
  IF HasHandler(map, handler.name)
    THEN [handlers |-> map, thrown |-> TRUE]
    ELSE [handlers |-> Append(map, handler), thrown |-> FALSE]

\* get: the handler's identity, 0 for undefined.
Get(map, name) ==
  LET at == FirstIndex({i \in 1..Len(map) : map[i].name = name})
  IN IF at = 0 THEN 0 ELSE map[at].id

\* getAllToolNames: Array.from(this.handlers.keys()).
GetAllToolNames(map) == [i \in 1..Len(map) |-> map[i].name]

NoRegistryCall ==
  [op |-> "none", name |-> "none", id |-> 0, thrown |-> FALSE, found |-> 0,
   names |-> <<>>, before |-> <<>>]

RegistryIdle ==
  /\ handlers = <<>>
  /\ firstRegistered = [n \in RegistryNames |-> 0]
  /\ registryCall = NoRegistryCall

\* registry.register(handler).  firstRegistered notes, per name, the first
\* handler register was ever called with.
RegisterCall ==
  \E handler \in Handlers :
    LET out == Register(handlers, handler)
    IN /\ handlers' = out.handlers
       /\ firstRegistered' =
            IF firstRegistered[handler.name] = 0
              THEN [firstRegistered EXCEPT ![handler.name] = handler.id]
              ELSE firstRegistered
       /\ registryCall' = [NoRegistryCall EXCEPT !.op = "register",
                             !.name = handler.name, !.id = handler.id,
                             !.thrown = out.thrown, !.before = handlers]
       /\ UNCHANGED notRegVars

\* registry.get(name).
GetCall ==
  /\ \E name \in RegistryNames :
       registryCall' = [NoRegistryCall EXCEPT !.op = "get", !.name = name,
                          !.found = Get(handlers, name), !.before = handlers]
  /\ UNCHANGED <<handlers, firstRegistered>>
  /\ UNCHANGED notRegVars

\* registry.getAllToolNames().
GetAllToolNamesCall ==
  /\ registryCall' = [NoRegistryCall EXCEPT !.op = "getAllToolNames",
                        !.names = GetAllToolNames(handlers), !.before = handlers]
  /\ UNCHANGED <<handlers, firstRegistered>>
  /\ UNCHANGED notRegVars

(***************************************************************************)
(* One directory seen by listRequests, discoverCollections and             *)
(* validateCollection                                                      *)
(***************************************************************************)
\* The directory lies SiteDepth levels below the search root, holds one marker
\* file or none, some request files, and (if the marker is bruno.json) that
\* file's content.
SiteDepths == 0..MaxSiteDepth
Sites ==
  [depth : SiteDepths, marker : {"none", "collection.bru"}, requests : 0..MaxListed,
   manifest : {NoManifest}]
    \cup [depth : SiteDepths, marker : {"bruno.json"}, requests : 0..MaxListed,
          manifest : {m \in ManifestStates : m.file # "absent"}]

\* The directory as listRequests' stat and hasCollectionFile see it.
SitePathState(s) == [kind |-> "directory", marker |-> s.marker, requests |-> s.requests]

\* The tree below the search root as discoverCollections walks it: a chain
\* down to the directory, with bruno.json in it or not.
SiteTree(s) ==
  [manifests |-> IF s.marker = "bruno.json" THEN {Spine(s.depth)} ELSE {},
   mark |-> [dir |-> <<>>, kind |-> "none"]]

NoVerdicts ==
  [list |-> "none", discover |-> "none", maxDepth |-> 0, validate |-> "none",
   errors |-> <<>>]

RootIdle ==
  /\ site = [depth |-> 0, marker |-> "none", requests |-> 0, manifest |-> NoManifest]
  /\ verdicts = NoVerdicts

\* listRequests(collectionPath) on the directory, nothing cached.
ListRequestsAtSite ==
  /\ verdicts.list = "none"
  /\ LET out == ListRequests([p \in CollectionPaths |-> NoList], "a",
                             SitePathState(site), "ok")
     IN verdicts' = [verdicts EXCEPT !.list =
                       IF out.status = "returned" THEN "accepted" ELSE out.message]
  /\ UNCHANGED site
  /\ UNCHANGED notRootVars

\* discoverCollections(searchRoot, maxDepth) on the tree holding the
\* directory, nothing cached.
DiscoverCollectionsAtSite ==
  /\ verdicts.discover = "none"
  /\ \E maxDepth \in RequestedDepths :
       LET walk == SearchDirectory(SiteTree(site), SearchRoot, 0, MaxSearchDepth(maxDepth))
       IN verdicts' = [verdicts EXCEPT
                         !.maxDepth = maxDepth,
                         !.discover = IF \E i \in 1..Len(walk.found) :
                                           walk.found[i] = Spine(site.depth)
                                        THEN "reported" ELSE "not reported"]
  /\ UNCHANGED site
  /\ UNCHANGED notRootVars

\* validateCollection(collectionPath) on the directory, up to the end of its
\* manifest check.
ValidateCollectionAtSite ==
  /\ verdicts.validate = "none"
  /\ LET access == AccessStage(NewResult, TRUE)
         checked == ManifestStage(access.result, site.manifest)
     IN verdicts' = [verdicts EXCEPT
                       !.errors = checked.result.errors,
                       !.validate = IF checked.returns THEN "returned at manifest"
                                    ELSE "went on"]
  /\ UNCHANGED site
  /\ UNCHANGED notRootVars

(***************************************************************************)
(* envVariables of a run tool call, from the handler to the runner's       *)
(* argument list                                                           *)
(***************************************************************************)
\* Names and values callers pass; text is the tuple of its characters.
EnvVarNames ==
  {<<"K", "_", "9">>, <<"_">>, <<"9", "K">>, <<"K", "-", "K">>}
EnvVarValues ==
  {<<>>, <<"v", "9">>, <<"v", ";", "r", "m">>, <<"$", "(", "i", "d", ")">>}

\* Object.entries(envVariables): entries in insertion order, keys distinct.
EnvEntries == [key : EnvVarNames, value : EnvVarValues]
EnvRecords ==
  {e \in UNION {[1..n -> EnvEntries] : n \in 0..MaxEnvEntries} :
     \A i, j \in 1..Len(e) : i # j => e[i].key # e[j].key}

Digits == {"0", "1", "2", "3", "4", "5", "6", "7", "8", "9"}
IsLetter(ch) == \E i \in 1..Len(UpperCase) : UpperCase[i] = ch \/ LowerCase[i] = ch

\* validateEnvVarName: /^[A-Za-z_][A-Za-z0-9_]*$/.
ValidateEnvVarName(name) ==
  /\ Len(name) > 0
  /\ IsLetter(name[1]) \/ name[1] = "_"
  /\ \A i \in 2..Len(name) : IsLetter(name[i]) \/ name[i] \in Digits \/ name[i] = "_"

\* validateEnvVarValue: no dangerous pattern matches.  The first pattern is
\* the class of the characters ; & | $ ( ) and the backtick (written
\* "backtick" here); each of the other three patterns (variable expansion,
\* command substitution, a backtick pair) needs a character of that class.
DangerousCharacters == {";", "&", "|", "backtick", "$", "(", ")"}
ValidateEnvVarValue(value) ==
  ~\E i \in 1..Len(value) : value[i] \in DangerousCharacters

InvalidNameWarning(key) == [text |-> "Invalid environment variable name", key |-> key]
UnsafeValueWarning(key) ==
  [text |-> "Potentially unsafe environment variable value for", key |-> key]

RECURSIVE SanitizeEnvVariables(_, _, _)
\* sanitizeEnvVariables: the loop over the entries from position i on, with
\* the sanitized entries and the warnings so far in acc.
SanitizeEnvVariables(envVars, i, acc) ==
  IF i > Len(envVars) THEN acc
  ELSE IF ~ValidateEnvVarName(envVars[i].key)
    THEN SanitizeEnvVariables(envVars, i + 1,
           [acc EXCEPT !.warnings = Append(@, InvalidNameWarning(envVars[i].key))])
  ELSE IF ~ValidateEnvVarValue(envVars[i].value)
    THEN SanitizeEnvVariables(envVars, i + 1,
           [acc EXCEPT !.warnings = Append(@, UnsafeValueWarning(envVars[i].key))])
  ELSE SanitizeEnvVariables(envVars, i + 1,
         [acc EXCEPT !.sanitized = Append(@, envVars[i])])

\* validateToolParametersWithConfig: errors come from the path and name
\* checks; of sanitizeEnvVariables' result only the warnings are kept.
ValidateToolParameters(pathsValid, envVars) ==
  [valid |-> pathsValid,
   warnings |-> SanitizeEnvVariables(envVars, 1,
                  [sanitized |-> <<>>, warnings |-> <<>>]).warnings]

EnvVarFlag == <<"-", "-", "e", "n", "v", "-", "v", "a", "r">>

RECURSIVE AddEnvironmentVariableArgs(_, _, _)
\* addEnvironmentVariableArgs: args.push('--env-var', `${key}=${value}`) for
\* each entry of options.envVariables from position i on.
AddEnvironmentVariableArgs(args, envVariables, i) ==
  IF i > Len(envVariables) THEN args
  ELSE AddEnvironmentVariableArgs(
         args \o <<EnvVarFlag, envVariables[i].key \o <<"=">> \o envVariables[i].value>>,
         envVariables, i + 1)

RunTools == {"bruno_run_request", "bruno_run_collection"}

NoEnvRun ==
  [pc |-> "idle", tool |-> "none", envVariables |-> <<>>, blocked |-> FALSE,
   logged |-> <<>>, spawned |-> FALSE, args |-> <<>>]

ArgsIdle == envRun = NoEnvRun

\* RunRequestHandler.handle / RunCollectionHandler.handle with the facade and
\* service calls below them, up to the argument list handed to execa.
HandleRun ==
  /\ envRun.pc = "idle"
  /\ \E tool \in RunTools, envVariables \in EnvRecords, pathsValid \in BOOLEAN,
        dryRun \in BOOLEAN :
       LET checked == ValidateToolParameters(pathsValid, envVariables)
       IN envRun' =
            IF ~checked.valid
              THEN [NoEnvRun EXCEPT !.pc = "done", !.tool = tool,
                                    !.envVariables = envVariables, !.blocked = TRUE]
            ELSE IF dryRun
              THEN [NoEnvRun EXCEPT !.pc = "done", !.tool = tool,
                                    !.envVariables = envVariables,
                                    !.logged = checked.warnings]
            ELSE [NoEnvRun EXCEPT !.pc = "done", !.tool = tool,
                                  !.envVariables = envVariables,
                                  !.logged = checked.warnings,
                                  !.spawned = TRUE,
                                  !.args = AddEnvironmentVariableArgs(<<>>, envVariables, 1)]
  /\ UNCHANGED notArgVars

\* The tool call is over.
HandleRunReturn ==
  /\ envRun.pc = "done"
  /\ envRun' = NoEnvRun
  /\ UNCHANGED notArgVars

(***************************************************************************)
(* parseRunResult and parseItems: one entry of the runner's JSON to one    *)
(* RequestOutcome                                                          *)
(***************************************************************************)
\* A test or assertion entry of the runner: its status text and its passed
\* field (true, false, or not there).
Flags == {"true", "false", "absent"}
RunnerTests == [status : {"pass", "passed", "fail", "none"}, passed : Flags]

\* A test array of an entry: not there, or a list.
Absent == [present |-> FALSE, list |-> <<>>]
TestArrays ==
  {Absent} \cup [present : {TRUE},
                 list : UNION {[1..n -> RunnerTests] : n \in 0..MaxTests}]

\* An entry of jsonResult.results: error is not there, null, or a message;
\* testResults stands for the first of testResults, tests and assertions
\* that is there.
RunnerResults ==
  [error : {"absent", "null", "message"}, testResults : TestArrays,
   assertionResults : TestArrays]

\* An entry of jsonResult.items.
RunnerItems ==
  [status : {"passed", "failed", "none"}, passed : Flags, tests : TestArrays]

\* passed of an assertion in parseRunResult:
\* t.status === 'pass' || t.passed === true.
TestPassed(t) == t.status = "pass" \/ t.passed = "true"

\* passed of an assertion in parseItems: t.passed || t.status === 'passed'.
ItemTestPassed(t) == t.passed = "true" \/ t.status = "passed"

\* testResults.map / assertionResults.map, skipped for what is no array.
MapTests(array) ==
  IF array.present
    THEN [i \in 1..Len(array.list) |-> [passed |-> TestPassed(array.list[i])]]
    ELSE <<>>

\* An outcome that also counts as failed when one of its assertions failed.
MapResultCheckingAssertions(r) ==
  LET allTests == MapTests(r.testResults) \o MapTests(r.assertionResults)
  IN [passed |-> /\ r.error = "null" \/ r.error = "absent"
                 /\ \A i \in 1..Len(allTests) : allTests[i].passed,
      hasAssertions |-> Len(allTests) > 0,
      assertions |-> allTests]

\* The function mapped over jsonResult.results: passed is
\* r.error === null || r.error === undefined; assertions is set when the
\* merged list is not empty.
MapResult(r) ==
  LET allTests == MapTests(r.testResults) \o MapTests(r.assertionResults)
  IN [passed |-> r.error = "null" \/ r.error = "absent",
      hasAssertions |-> Len(allTests) > 0,
      assertions |-> allTests]

\* The function mapped over the items in parseItems: passed is
\* item.status === 'passed' || item.passed !== false; assertions is set when
\* item.tests is there.
ParseItem(item) ==
  [passed |-> item.status = "passed" \/ item.passed # "false",
   hasAssertions |-> item.tests.present,
   assertions |-> IF item.tests.present
                    THEN [i \in 1..Len(item.tests.list) |->
                            [passed |-> ItemTestPassed(item.tests.list[i])]]
                    ELSE <<>>]

NoRunnerResult ==
  [error |-> "absent", testResults |-> Absent, assertionResults |-> Absent]
NoRunnerItem == [status |-> "none", passed |-> "absent", tests |-> Absent]
NoRequestOutcome == [passed |-> FALSE, hasAssertions |-> FALSE, assertions |-> <<>>]

NoNormalizing ==
  [pc |-> "idle", shape |-> "none", result |-> NoRunnerResult, item |-> NoRunnerItem,
   requestOutcome |-> NoRequestOutcome]

NormIdle == normalizing = NoNormalizing

\* parseRunResult on JSON with a results array: one entry normalized.
NormalizeResult ==
  /\ normalizing.pc = "idle"
  /\ \E r \in RunnerResults :
       normalizing' = [NoNormalizing EXCEPT !.pc = "done", !.shape = "results",
                                            !.result = r,
                                            !.requestOutcome = MapResult(r)]
  /\ UNCHANGED notNormVars

\* parseRunResult on JSON with an items array and no results: parseItems.
NormalizeItem ==
  /\ normalizing.pc = "idle"
  /\ \E item \in RunnerItems :
       normalizing' = [NoNormalizing EXCEPT !.pc = "done", !.shape = "items",
                                            !.item = item,
                                            !.requestOutcome = ParseItem(item)]
  /\ UNCHANGED notNormVars

\* The RunResult has been returned.
NormalizeReturn ==
  /\ normalizing.pc = "done"
  /\ normalizing' = NoNormalizing
  /\ UNCHANGED notNormVars

(***************************************************************************)
(* Specifications: one per subsystem, the other subsystems at rest         *)
(***************************************************************************)
ExtIdle ==
  /\ RootIdle
  /\ ArgsIdle
  /\ NormIdle

ServicesIdle ==
  /\ ListIdle
  /\ ValIdle
  /\ ParseIdle
  /\ RegistryIdle
  /\ ExtIdle

InitRun ==
  /\ RunIdle
  /\ ToolIdle
  /\ FindIdle
  /\ DiscIdle
  /\ ServicesIdle

NextRun ==
  \/ \E c \in Calls : BeginRunRequest(c)
  \/ \E c \in Calls : BeginRunCollection(c)
  \/ \E c \in Calls : RunnerExit(c)
  \/ \E c \in Calls : ReadOutput(c)
  \/ \E c \in Calls : CleanupAndReturn(c)
  \/ \E c \in Calls : CleanupAndThrow(c)
  \/ \E c \in Calls : Retire(c)

SpecRun == InitRun /\ [][NextRun]_vars

\* Two run calls whose stretches between awaits interleave freely.
ConcurrentCalls == {1, 2}

NextRunConcurrent ==
  \/ \E c \in ConcurrentCalls : StartRunRequest(c)
  \/ \E c \in ConcurrentCalls : StartRunCollection(c)
  \/ \E c \in ConcurrentCalls : RunnerExitQuietly(c)
  \/ \E c \in ConcurrentCalls : ReadOutput(c)
  \/ \E c \in ConcurrentCalls : CleanupAndReturn(c)
  \/ \E c \in ConcurrentCalls : CleanupAndThrow(c)
  \/ \E c \in ConcurrentCalls : Retire(c)

SpecRunConcurrent == InitRun /\ [][NextRunConcurrent]_vars

InitTool ==
  /\ RunIdle
  /\ ToolIdle
  /\ FindIdle
  /\ DiscIdle
  /\ ServicesIdle

NextTool ==
  \/ CallTool
  \/ ValidateParameters
  \/ CliCall
  \/ DryRunDetails
  \/ Respond

SpecTool == InitTool /\ [][NextTool]_vars

InitFind ==
  /\ RunIdle
  /\ ToolIdle
  /\ DiscIdle
  /\ ServicesIdle
  /\ requests \in RequestLists
  /\ requestName = <<>>
  /\ foundPath = 0
  /\ findPc = "ready"

NextFind ==
  \/ FindRequest
  \/ FindReturn

SpecFind == InitFind /\ [][NextFind]_vars

InitDisc ==
  /\ RunIdle
  /\ ToolIdle
  /\ FindIdle
  /\ ServicesIdle
  /\ tree \in Trees
  /\ discoveryCache = NoEntry
  /\ discovery = NoDiscovery

NextDisc ==
  \/ DiscoverCollections
  \/ DiscoverReturn
  \/ ExpireDiscoveryCache

SpecDisc == InitDisc /\ [][NextDisc]_vars

BaseIdle ==
  /\ RunIdle
  /\ ToolIdle
  /\ FindIdle
  /\ DiscIdle

InitList ==
  /\ BaseIdle
  /\ ServicesIdle

NextList ==
  \/ ListRequestsCall
  \/ ListReturn
  \/ ChangeCollection
  \/ ExpireRequestListCache

SpecList == InitList /\ [][NextList]_vars

InitValidate ==
  /\ BaseIdle
  /\ ServicesIdle

NextValidate ==
  \/ BeginValidateCollection
  \/ CheckManifest
  \/ ValidateRequests
  \/ ValidateEnvironments
  \/ ValidateCollectionReturn
  \/ ValidateEnvironmentCall
  \/ ValidateEnvironmentReturn

SpecValidate == InitValidate /\ [][NextValidate]_vars

InitParse ==
  /\ BaseIdle
  /\ ServicesIdle

NextParse ==
  \/ GetRequestDetailsCall
  \/ GetRequestDetailsReturn

SpecParse == InitParse /\ [][NextParse]_vars

InitRegistry ==
  /\ BaseIdle
  /\ ServicesIdle

NextRegistry ==
  \/ RegisterCall
  \/ GetCall
  \/ GetAllToolNamesCall

SpecRegistry == InitRegistry /\ [][NextRegistry]_vars

InitRoot ==
  /\ BaseIdle
  /\ ListIdle /\ ValIdle /\ ParseIdle /\ RegistryIdle
  /\ ArgsIdle /\ NormIdle
  /\ site \in Sites
  /\ verdicts = NoVerdicts

NextRoot ==
  \/ ListRequestsAtSite
  \/ DiscoverCollectionsAtSite
  \/ ValidateCollectionAtSite

SpecRoot == InitRoot /\ [][NextRoot]_vars

InitArgs ==
  /\ BaseIdle
  /\ ServicesIdle

NextArgs ==
  \/ HandleRun
  \/ HandleRunReturn

SpecArgs == InitArgs /\ [][NextArgs]_vars

InitNormalize ==
  /\ BaseIdle
  /\ ServicesIdle

NextNormalize ==
  \/ NormalizeResult
  \/ NormalizeItem
  \/ NormalizeReturn

SpecNormalize == InitNormalize /\ [][NextNormalize]_vars

(***************************************************************************)
(* Claims: request execution                                               *)
(***************************************************************************)
Done(c) == calls[c].pc = "done"
Returned(c) == calls[c].outcome.status = "returned"
Thrown(c) == calls[c].outcome.status = "thrown"

\* The runner ran to completion and exited with a non-zero code.
ExitedNonZero(c) ==
  calls[c].res.spawned /\ calls[c].res.hasExit /\ calls[c].res.exitCode # 0

\* C1: for runRequest and runCollection alike, a run that completes with a
\* non-zero exit code after writing valid JSON to the temp file (read when no
\* custom reporter is requested) raises nothing and returns a RunResult with
\* the parsed summary, failedRequests > 0 when the JSON reports failures.
C1_NonZeroExitStillParsed ==
  \A c \in Calls :
    (Done(c) /\ ExitedNonZero(c) /\ ~calls[c].custom /\ calls[c].wrote.kind = "json")
      => /\ Returned(c)
         /\ calls[c].wrote.hasSummary
              => /\ calls[c].outcome.hasSummary
                 /\ calls[c].outcome.failedRequests = calls[c].wrote.failed

C3_TimeoutFails ==
  \A c \in Calls :
    (Done(c) /\ calls[c].res.timedOut)
      => Thrown(c) /\ calls[c].outcome.timeoutMessage

NotFoundFragments == {"command not found", "not recognized", "ENOENT"}
RootFragment == "You can run only at the root of a collection"

\* The child process itself could not run: no binary to spawn, or a failed
\* run whose stderr reports a missing command or a non-collection directory.
ChildCouldNotRun(res) ==
  \/ ~res.spawned
  \/ /\ res.failed /\ ~res.timedOut
     /\ (res.stderr \cap NotFoundFragments # {} \/ RootFragment \in res.stderr)

\* C4: when the child process cannot run, the facade's runRequest and
\* runCollection fail, classified RunnerNotFound for a missing binary before
\* NotACollectionRoot; a missing binary never yields a normal RunResult.
C4_FailureClassified ==
  \A c \in Calls :
    (Done(c) /\ calls[c].tempFile # 0 /\ ChildCouldNotRun(calls[c].res))
      => /\ Thrown(c)
         /\ calls[c].outcome.kind =
              IF ~calls[c].res.spawned \/ calls[c].res.stderr \cap NotFoundFragments # {}
                THEN "RunnerNotFound"
                ELSE "NotACollectionRoot"

(***************************************************************************)
(* Claims: tool handlers                                                   *)
(***************************************************************************)
\* C5: in every handler but health-check, parameter validation has completed
\* (and passed) before any BrunoCLI operation is invoked, and an invalid
\* report ends the call with an McpError and no BrunoCLI operation.
C5_ValidationBeforeCli ==
  (inv.tool \in RegisteredTools \ {"bruno_health_check"})
    => /\ (inv.pc = "cli" \/ inv.cliOps # <<>>) => (inv.validated /\ inv.valid)
       /\ (inv.validated /\ ~inv.valid)
            => /\ inv.pc = "done" /\ inv.resp = "error"
               /\ inv.err.present /\ inv.err.mcp
               /\ inv.cliOps = <<>>

\* C5 witness: list-requests was refused by validation.
C5_Witness ==
  /\ inv.tool = "bruno_list_requests"
  /\ inv.pc = "done" /\ inv.validated /\ ~inv.valid /\ inv.resp = "error"

\* C6: a dry run of run-request or run-collection invokes only listRequests
\* and getRequestDetails, never runRequest or runCollection, whether it
\* succeeds or fails.
C6_DryRunNeverRuns ==
  (inv.dryRun /\ inv.tool \in {"bruno_run_request", "bruno_run_collection"})
    => \A i \in 1..Len(inv.cliOps) :
         inv.cliOps[i] \in {"listRequests", "getRequestDetails"}

\* C6 witness: a run-collection dry run has listed the requests and fetched
\* details, one fetch failing.
C6_Witness ==
  /\ inv.dryRun /\ inv.tool = "bruno_run_collection"
  /\ inv.pc = "done" /\ Len(inv.cliOps) > 1 /\ inv.failedOps > 0

\* C7: every error message surfaced to the tool caller that may carry
\* captured external text has been through the secret-masking step.
C7_SurfacedErrorsMasked ==
  (inv.pc = "done" /\ inv.resp = "error" /\ inv.err.external) => inv.err.masked

(***************************************************************************)
(* Claims: request lookup and collection discovery                         *)
(***************************************************************************)
\* The tier at which a request matches the name asked for: 1 exact, 2 equal
\* up to letter case, 3 containing it, 4 no match.
MatchTier(request, name) ==
  IF request.name = name THEN 1
  ELSE IF ToLowerCase(request.name) = ToLowerCase(name) THEN 2
  ELSE IF Includes(request.name, name) THEN 3
  ELSE 4

\* C8: findRequestFile resolves a name in strict tier order (exact, then
\* case-insensitive, then substring), returns the first match of the winning
\* tier in discovery order, and nothing when no tier matches.
C8_TierOrder ==
  findPc = "done" =>
    /\ foundPath = 0 <=> \A i \in 1..Len(requests) : MatchTier(requests[i], requestName) = 4
    /\ foundPath # 0 =>
         \E i \in 1..Len(requests) :
           /\ requests[i].path = foundPath
           /\ MatchTier(requests[i], requestName) < 4
           /\ \A j \in 1..Len(requests) :
                \/ MatchTier(requests[i], requestName) < MatchTier(requests[j], requestName)
                \/ /\ MatchTier(requests[i], requestName) = MatchTier(requests[j], requestName)
                   /\ i <= j

\* C8 witness: "FF" was discovered before "F", and the query "f" resolved to
\* "F" by the case-insensitive tier.
C8_Witness ==
  /\ findPc = "done"
  /\ Len(requests) = 2
  /\ requests[1].name = <<"F", "F">>
  /\ requests[2].name = <<"F">>
  /\ requestName = <<"f">>
  /\ foundPath = requests[2].path

\* Directory inner lies under directory outer.
LiesUnder(inner, outer) ==
  Len(outer) < Len(inner) /\ SubSeq(inner, 1, Len(outer)) = outer

\* C9: discoverCollections never returns nested collection roots.
C9_NoNestedRoots ==
  discovery.pc = "done" =>
    \A i, j \in 1..Len(discovery.collections) :
      ~LiesUnder(discovery.collections[j], discovery.collections[i])

\* C9 witness: a walk returned a collection root that has another collection
\* root below it, within the depth searched.
C9_Witness ==
  /\ discovery.pc = "done" /\ ~discovery.cached
  /\ \E i \in 1..Len(discovery.collections) :
       \E inner \in tree.manifests :
         /\ LiesUnder(inner, discovery.collections[i])
         /\ Len(inner) <= MaxSearchDepth(discovery.maxDepth)

\* C10: whatever maxDepth is requested, no directory deeper than 10 below the
\* search root is read and no collection root deeper than 10 is returned.
C10_DepthCapped ==
  discovery.pc = "done" =>
    /\ \A i \in 1..Len(discovery.collections) : Len(discovery.collections[i]) <= DepthCap
    /\ \A dir \in discovery.read : Len(dir) <= DepthCap

\* C10 witness: a walk asked for depth 999 read the directory at depth 10 and
\* left out the collection root at depth 11.
C10_Witness ==
  /\ discovery.pc = "done" /\ ~discovery.cached
  /\ discovery.maxDepth = 999
  /\ Spine(DepthCap) \in discovery.read
  /\ Spine(DepthCap + 1) \in tree.manifests
  /\ \A i \in 1..Len(discovery.collections) : discovery.collections[i] # Spine(DepthCap + 1)

(***************************************************************************)
(* Claims: request listing                                                 *)
(***************************************************************************)
NotFoundMessages == {"Collection not found", "Collection path is not a directory"}
NotACollectionMessage == "Not a valid Bruno collection"

\* A finished call failed the way the path's state on disk asks for.
ListFailsAsStated ==
  LET st == pathState[listing.path]
  IN /\ st.kind \in {"missing", "file"}
          => listing.status = "thrown" /\ listing.message \in NotFoundMessages
     /\ (st.kind = "directory" /\ ~HasCollectionFile(st))
          => listing.status = "thrown" /\ listing.message = NotACollectionMessage

\* A failed call wrote nothing to the cache, and a written entry is the
\* list a traversal of the input path has just returned.
ListCacheWrittenOnSuccessOnly ==
  /\ listing.status = "thrown" => requestListCache = listing.before
  /\ \A p \in CollectionPaths :
       requestListCache[p] # listing.before[p]
         => /\ p = listing.path
            /\ listing.status = "returned" /\ ~listing.hit
            /\ requestListCache[p] = [present |-> TRUE, value |-> listing.value]
            /\ listing.value = FindBrunoRequests(pathState[p])

\* C11: listRequests fails with NotFound when the path does not exist or is
\* not a directory and with NotACollection when the directory has no marker
\* file; a failure writes nothing to the request-list cache, and only the
\* result of a successful traversal is cached, under the input path.
C11_ListFailures ==
  listing.pc = "done" => (ListFailsAsStated /\ ListCacheWrittenOnSuccessOnly)

\* C11 as amended: the failures are those of a call that missed the cache; a
\* call that hits the cache returns the stored list without looking at the
\* disk and leaves the cache as it was.
C11_ListFailuresOnMiss ==
  listing.pc = "done" =>
    /\ ~listing.hit => ListFailsAsStated
    /\ listing.hit => /\ listing.status = "returned"
                      /\ listing.value = listing.before[listing.path].value
                      /\ requestListCache = listing.before
    /\ ListCacheWrittenOnSuccessOnly

\* C11 witness: a call on a directory without a marker file has failed while
\* the list of the other path was in the cache.
C11_Witness ==
  /\ listing.pc = "done" /\ ~listing.hit
  /\ listing.status = "thrown" /\ listing.message = NotACollectionMessage
  /\ \E p \in CollectionPaths \ {listing.path} : requestListCache[p].present

(***************************************************************************)
(* Claims: collection and environment validation                           *)
(***************************************************************************)
Has(seq, x) == \E i \in 1..Len(seq) : seq[i] = x

ManifestChecked == Len(validation.stages) >= 2
RequestsChecked == Len(validation.stages) >= 3
EnvironmentsChecked == Len(validation.stages) >= 4

\* C12: validateCollection on a root that exists but has no bruno.json
\* returns at once with valid = false, the single error "bruno.json not found
\* in collection root", hasBrunoJson = false, no warnings and all counts 0;
\* the request and environment stages are not executed.
C12_MissingManifestReturnsAtOnce ==
  (ManifestChecked /\ validation.manifest.file = "absent")
    => /\ validation.pc = "done" /\ validation.status = "returned"
       /\ validation.stages = <<"access", "manifest">>
       /\ validation.result =
            [NewResult EXCEPT !.valid = FALSE,
                              !.errors = <<"bruno.json not found in collection root">>]

\* C12 witness: a call on an existing root without bruno.json has returned.
C12_Witness ==
  /\ validation.pc = "done" /\ validation.rootExists
  /\ ManifestChecked /\ validation.manifest.file = "absent"

\* C13: after the manifest check of a parsed bruno.json, a type that is
\* missing or not "collection" has appended an error and made the result
\* invalid, while a missing version or name has appended a warning only and
\* left valid as it was.
C13_TypeIsRequired ==
  (validation.pc = "requests" /\ validation.manifest.file = "json")
    => /\ validation.manifest.type # "collection"
            => ~validation.result.valid /\ Len(validation.result.errors) = 1
       /\ validation.manifest.type = "collection"
            => validation.result.valid /\ validation.result.errors = <<>>
       /\ ~validation.manifest.version
            => Has(validation.result.warnings, "bruno.json missing \"version\" field")
       /\ ~validation.manifest.name
            => Has(validation.result.warnings, "bruno.json missing \"name\" field")

\* C14: whatever the environment stage meets (no environment, an invalid
\* one, environment warnings, a failed listing or validation), valid and
\* errors after the stage equal their values before it.
C14_EnvironmentsOnlyWarn ==
  (validation.pc = "done" /\ EnvironmentsChecked)
    => /\ validation.result.valid = validation.before.valid
       /\ validation.result.errors = validation.before.errors

\* C14 witness: the environment stage met an invalid environment and the
\* collection was returned valid.
C14_Witness ==
  /\ validation.pc = "done" /\ EnvironmentsChecked
  /\ \E i \in 1..Len(validation.envs.envs) :
       ~validation.envs.envs[i].raises /\ ~validation.envs.envs[i].valid
  /\ validation.result.valid

\* C15: validateCollection and validateEnvironment never raise; each failure
\* they meet (directory or file access, reading and parsing bruno.json,
\* listing requests, fetching a request's details, listing or validating
\* environments) is an entry of the errors or warnings returned.
C15_ValidationNeverRaises ==
  /\ validation.pc = "done"
       => /\ validation.status = "returned"
          /\ ~validation.rootExists
               => Has(validation.result.errors, "Collection directory not found")
          /\ (ManifestChecked /\ validation.manifest.file \in {"absent", "unreadable"})
               => Has(validation.result.errors, "bruno.json not found in collection root")
          /\ (ManifestChecked /\ validation.manifest.file = "invalid")
               => Has(validation.result.errors, "Invalid JSON in bruno.json")
          /\ (RequestsChecked /\ ~validation.listed.ok)
               => Has(validation.result.errors, "Failed to list requests")
          /\ (RequestsChecked /\ Has(validation.listed.details, FALSE))
               => Has(validation.result.errors, "Invalid request")
          /\ (EnvironmentsChecked
                /\ (\/ ~validation.envs.ok
                    \/ \E i \in 1..Len(validation.envs.envs) : validation.envs.envs[i].raises))
               => Has(validation.result.warnings, "Could not validate environments")
  /\ envValidation.pc = "done"
       => /\ envValidation.status = "returned"
          /\ ~envValidation.file.exists
               => Has(envValidation.result.errors, "Environment file not found")
          /\ (envValidation.file.exists /\ ~envValidation.file.readable)
               => Has(envValidation.result.errors, "Failed to read environment file")

\* C15 witness: a collection report was returned although the request
\* listing failed and validating an environment raised.
C15_Witness ==
  /\ validation.pc = "done" /\ EnvironmentsChecked
  /\ ~validation.listed.ok
  /\ \E i \in 1..Len(validation.envs.envs) : validation.envs.envs[i].raises
  /\ validation.status = "returned"

\* C16: validateEnvironment for a name without a file returns exists =
\* false, valid = false, the single error "not found", no warnings and no
\* variables, and has read nothing; and a result with exists = false is
\* never valid.
C16_MissingEnvironment ==
  envValidation.pc = "done"
    => /\ ~envValidation.file.exists
            => envValidation.result =
                 [NewEnvResult EXCEPT !.valid = FALSE,
                                      !.errors = <<"Environment file not found">>]
       /\ ~envValidation.result.exists => ~envValidation.result.valid

\* C16 witness: a call for a missing environment file has returned.
C16_Witness ==
  /\ envValidation.pc = "done" /\ envValidation.status = "returned"
  /\ ~envValidation.file.exists

\* The file is one vars block holding the single variable API_KEY.
OnlyApiKey(value) ==
  /\ envValidation.file.exists /\ envValidation.file.readable
  /\ envValidation.file.content.header = "vars {"
  /\ envValidation.file.content.closed
  /\ envValidation.file.content.lines = <<[key |-> ApiKey, value |-> value]>>

\* C17: for an environment file whose only variable is API_KEY, the value
\* {{secret}} produces no hardcoded-data warning and the value sk_live_123
\* produces one.
C17_HardcodedApiKey ==
  envValidation.pc = "done"
    => /\ OnlyApiKey(TemplateValue)
            => ~Has(envValidation.result.warnings, HardcodedWarning(ApiKey))
       /\ OnlyApiKey(LiteralValue)
            => Has(envValidation.result.warnings, HardcodedWarning(ApiKey))

\* The walk gets to a directory: it is within the depth searched, no
\* directory above it is unreadable or a collection root, and neither it nor
\* a directory above it is hidden or named node_modules.
WalkGetsTo(t, dir, maxSearchDepth) ==
  /\ Len(dir) <= maxSearchDepth
  /\ \A k \in 0..(Len(dir) - 1) :
       Readable(t, SubSeq(dir, 1, k)) /\ ~HasBrunoJson(t, SubSeq(dir, 1, k))
  /\ \A k \in 1..Len(dir) : EntryName(t, SubSeq(dir, 1, k)) = "plain"

\* C18: an unreadable directory, the search root included, does not make
\* discoverCollections fail; it is skipped, and the list returned holds
\* exactly the readable collection roots the walk gets to, those in sibling
\* subtrees of an unreadable directory included.
C18_UnreadableSkipped ==
  (discovery.pc = "done" /\ ~discovery.cached)
    => {discovery.collections[i] : i \in 1..Len(discovery.collections)}
         = {dir \in tree.manifests :
              /\ WalkGetsTo(tree, dir, MaxSearchDepth(discovery.maxDepth))
              /\ Readable(tree, dir)}

\* C18 witness: the first subdirectory of the search root is unreadable and
\* the collection root next to it was returned.
C18_Witness ==
  /\ discovery.pc = "done" /\ ~discovery.cached
  /\ tree.mark = [dir |-> <<1>>, kind |-> "unreadable"]
  /\ \E i \in 1..Len(discovery.collections) : discovery.collections[i] = <<2>>

(***************************************************************************)
(* Claims: request details                                                 *)
(***************************************************************************)
\* No block of the text opens with a method name and has a closing line
\* after it.
NoMethodBlock(text) ==
  \A i \in 1..Len(text) :
    (\E k \in 1..Len(MethodBlocks) : text[i].kind = MethodBlocks[k])
      => \A j \in i..Len(text) : ~text[j].closed

\* No tests block of the text has a closing line after it.
NoTestsBlock(text) ==
  \A i \in 1..Len(text) :
    text[i].kind = "tests" => \A j \in i..Len(text) : ~text[j].closed

\* The call raises exactly when the file cannot be read.
RaisesOnlyOnIO ==
  /\ parsing.readable => parsing.status = "returned"
  /\ ~parsing.readable => parsing.status = "thrown"

C20_FirstRegistrationWins ==
  /\ \A name \in RegistryNames : Get(handlers, name) = firstRegistered[name]
  /\ registryCall.op = "register"
       => /\ registryCall.thrown <=> HasHandler(registryCall.before, registryCall.name)
          /\ registryCall.thrown => handlers = registryCall.before
  /\ registryCall.op = "get" => registryCall.found = firstRegistered[registryCall.name]
  /\ registryCall.op = "getAllToolNames"
       => \A name \in RegistryNames :
            Cardinality({i \in 1..Len(registryCall.names) : registryCall.names[i] = name})
              = IF firstRegistered[name] = 0 THEN 0 ELSE 1

\* C20 witness: registering a second handler under a taken name has raised.
C20_Witness ==
  /\ registryCall.op = "register" /\ registryCall.thrown
  /\ registryCall.id # firstRegistered[registryCall.name]
  /\ Len(handlers) > 1

(***************************************************************************)
(* Claims: output resolution and concurrent runs                           *)
(***************************************************************************)
\* The run got past the check of the execa result, so its output is resolved.
OutputResolved(c) ==
  Done(c) /\ calls[c].tempFile # 0 /\ ~ThrowsResult(calls[c].op, calls[c].res)

\* The JSON a resolved run reports: the temp file's when no custom reporter
\* is requested and the file parses, else stdout's, else none.
ResolvedJson(c) ==
  IF ~calls[c].custom /\ calls[c].wrote.kind = "json" THEN calls[c].wrote
  ELSE IF calls[c].res.stdout.kind = "json" THEN calls[c].res.stdout
  ELSE Null

\* C21: output resolution order of a run.  Without a custom reporter the temp
\* JSON file is read first and stdout is scanned only when that read or parse
\* fails; with a custom reporter the temp file is never read and only stdout
\* is scanned; when neither yields JSON the call still returns a RunResult
\* with stdout/stderr/exitCode and no summary.
C21_OutputResolutionOrder ==
  \A c \in Calls :
    /\ calls[c].custom => calls[c].json = Null
    /\ (calls[c].pc = "cleanup" /\ ~calls[c].custom)
         => calls[c].json = TryParseJson(calls[c].wrote)
    /\ OutputResolved(c)
         => /\ Returned(c) /\ calls[c].outcome.kind = "RunResult"
            /\ calls[c].outcome.stderr = calls[c].res.stderr
            /\ calls[c].outcome.exitCode = calls[c].res.exitCode
            /\ calls[c].outcome.hasSummary
                 = (ResolvedJson(c).kind = "json" /\ ResolvedJson(c).hasSummary)
            /\ calls[c].outcome.failedRequests
                 = IF ResolvedJson(c).hasSummary THEN ResolvedJson(c).failed ELSE 0

\* C21 witness: a run without custom reporter returned the summary of its
\* temp file although stdout held JSON with another summary.
C21_Witness ==
  \E c \in Calls :
    /\ OutputResolved(c) /\ ~calls[c].custom
    /\ calls[c].wrote.kind = "json" /\ calls[c].wrote.hasSummary
    /\ calls[c].res.stdout.kind = "json" /\ calls[c].res.stdout.hasSummary
    /\ calls[c].res.stdout.failed # calls[c].wrote.failed
    /\ calls[c].outcome.failedRequests = calls[c].wrote.failed

\* C21 second case: with a custom reporter and no JSON on stdout the run
\* returned without a summary although the temp file held JSON.
C21_FallbackReached ==
  \E c \in Calls :
    /\ OutputResolved(c) /\ calls[c].custom
    /\ calls[c].wrote.kind = "json" /\ calls[c].wrote.hasSummary
    /\ calls[c].res.stdout.kind # "json"
    /\ ~calls[c].outcome.hasSummary

\* Both calls hold a temp path and neither has finished.
InFlight(c) == calls[c].pc \in {"exec", "read", "cleanup", "cleanupThrow"}

\* C22: two run calls whose executions interleave use distinct temp output
\* paths; under every interleaving a call about to read finds the file its
\* own runner wrote (no other call's cleanup removed it, no other runner
\* overwrote it) and what it has read is its own runner's JSON.
C22_ConcurrentRunsIsolated ==
  \A c, d \in ConcurrentCalls :
    /\ (c # d /\ InFlight(c) /\ InFlight(d)) => calls[c].tempFile # calls[d].tempFile
    /\ calls[c].pc = "read" => files[calls[c].tempFile] = calls[c].wrote
    /\ (calls[c].pc = "cleanup" /\ ~calls[c].custom)
         => calls[c].json = TryParseJson(calls[c].wrote)

\* C22 witness: one call is about to read its JSON while the other call,
\* whose runner wrote different JSON, has already removed its own file.
C22_Witness ==
  \E c, d \in ConcurrentCalls :
    /\ c # d
    /\ calls[c].pc = "read" /\ calls[c].wrote.kind = "json"
    /\ Done(d) /\ calls[d].tempFile # 0
    /\ calls[d].wrote.kind = "json" /\ calls[d].wrote # calls[c].wrote
    /\ calls[d].tempFile > calls[c].tempFile

(***************************************************************************)
(* Claims: the collection-root criterion                                   *)
(***************************************************************************)
\* The directory lies within the depth the discovery call searches.
WithinDepth == site.depth <= MaxSearchDepth(verdicts.maxDepth)

\* C23: all operations apply the same collection-root criterion (bruno.json
\* or collection.bru): a directory listRequests accepts is reported by
\* discoverCollections when it lies within the searched depth, and
\* validateCollection does not reject it for a missing manifest.
C23_SameRootCriterion ==
  verdicts.list = "accepted"
    => /\ (verdicts.discover # "none" /\ WithinDepth) => verdicts.discover = "reported"
       /\ verdicts.validate # "none"
            => ~Has(verdicts.errors, "bruno.json not found in collection root")

(***************************************************************************)
(* Claims: environment variable overrides                                  *)
(***************************************************************************)
\* The entry passes the name check and the unsafe-character check.
PassesBothChecks(e) == ValidateEnvVarName(e.key) /\ ValidateEnvVarValue(e.value)

\* The argument is KEY=VALUE of the entry.
IsOverrideOf(arg, e) == arg = e.key \o <<"=">> \o e.value

\* C24: an envVariables entry whose name fails the env-var name check or
\* whose value fails the unsafe-character check is never passed to the runner
\* as --env-var KEY=VALUE; only entries passing both checks reach the
\* argument list.
C24_OnlySafeOverridesReachRunner ==
  \A i \in 1..Len(envRun.args) :
    envRun.args[i] = EnvVarFlag
      => \E k \in 1..Len(envRun.envVariables) :
           /\ IsOverrideOf(envRun.args[i + 1], envRun.envVariables[k])
           /\ PassesBothChecks(envRun.envVariables[k])

(***************************************************************************)
(* Claims: validation results                                              *)
(***************************************************************************)
\* C25: in every result of validateCollection and of validateEnvironment,
\* valid is true exactly when errors is empty.
C25_ValidIffNoErrors ==
  /\ validation.status = "returned"
       => (validation.result.valid <=> validation.result.errors = <<>>)
  /\ envValidation.status = "returned"
       => (envValidation.result.valid <=> envValidation.result.errors = <<>>)

\* C25 witness: validateCollection went through all its stages and returned
\* an invalid result with a wrong manifest type and a failed listing.
C25_Witness ==
  /\ validation.status = "returned" /\ EnvironmentsChecked
  /\ validation.manifest.type = "other" /\ ~validation.listed.ok
  /\ Len(validation.result.errors) = 2
  /\ ~validation.result.valid

\* C25 second case: validateEnvironment returned an invalid result for a
\* file it could not read.
C25_EnvironmentWitness ==
  /\ envValidation.status = "returned"
  /\ envValidation.file.exists /\ ~envValidation.file.readable
  /\ ~envValidation.result.valid

\* The number of entries of a sequence equal to x.
Count(seq, x) == Cardinality({i \in 1..Len(seq) : seq[i] = x})

\* C26: in every result of validateCollection, validRequests plus
\* invalidRequests equals totalRequests and the number of "Invalid request"
\* errors equals invalidRequests, whichever detail fetches fail and whether
\* or not the listing fails.
C26_RequestCountsAddUp ==
  validation.status = "returned"
    => /\ validation.result.summary.validRequests
            + validation.result.summary.invalidRequests
          = validation.result.summary.totalRequests
       /\ Count(validation.result.errors, "Invalid request")
          = validation.result.summary.invalidRequests
       /\ RequestsChecked
            => validation.result.summary.totalRequests = Len(validation.listed.details)

\* C26 witness: a listing of two requests, one whose details could be
\* fetched and one whose fetch failed.
C26_Witness ==
  /\ validation.status = "returned" /\ RequestsChecked
  /\ validation.listed.ok
  /\ \E i, j \in 1..Len(validation.listed.details) :
       validation.listed.details[i] /\ ~validation.listed.details[j]
  /\ validation.result.summary.invalidRequests > 0
  /\ validation.result.summary.validRequests > 0

\* C26 second case: the listing failed and all three counts are zero.
C26_FailedListingWitness ==
  /\ validation.status = "returned" /\ RequestsChecked
  /\ ~validation.listed.ok
  /\ validation.result.summary.totalRequests = 0

(***************************************************************************)
(* Claims: discovery results and the requested depth                       *)
(***************************************************************************)
\* C27: the result of discoverCollections(searchRoot, maxDepth) is determined
\* by the tree and min(maxDepth, 10) alone: after any earlier calls on the
\* same search root with other depths, on an unchanged tree, a call returns
\* the roots reachable within its own depth and not the result computed for
\* an earlier depth.
C27_DepthDeterminesResult ==
  discovery.pc = "done"
    => discovery.collections
         = SearchDirectory(tree, SearchRoot, 0, MaxSearchDepth(discovery.maxDepth)).found

(***************************************************************************)
(* Claims: looking a listed request up by its name                         *)
(***************************************************************************)
\* C28: for each record r of a collection, findRequestFile(root, r.name)
\* returns r.path, also when several request files carry the same name; so
\* the per-request detail fetch of validateCollection, which goes through
\* this lookup, reads each listed request file.
C28_LookupReturnsOwnPath ==
  findPc = "done"
    => \A i \in 1..Len(requests) :
         requests[i].name = requestName => foundPath = requests[i].path

(***************************************************************************)
(* Claims: normalized request outcomes                                     *)
(***************************************************************************)
\* C29 as stated: in every normalized RunResult, a RequestOutcome with
\* passed = true has no entry with passed = false in its merged assertions
\* list.
C29_PassedHasNoFailedAssertion ==
  (normalizing.pc = "done" /\ normalizing.requestOutcome.passed)
    => \A i \in 1..Len(normalizing.requestOutcome.assertions) :
         normalizing.requestOutcome.assertions[i].passed

\* The merged assertions list of a results entry: testResults first, then
\* assertionResults.
MergedTests(r) ==
  (IF r.testResults.present THEN r.testResults.list ELSE <<>>)
    \o (IF r.assertionResults.present THEN r.assertionResults.list ELSE <<>>)

\* C29 amended: for an entry of the results array, passed is true exactly
\* when the entry's error is null or absent, whatever its assertions; the
\* assertions list merges testResults and assertionResults in that order and
\* an entry of it has passed = true exactly when its source carries the pass
\* marker (status "pass" or passed true).  For an entry of the items array,
\* passed is true exactly when its status is "passed" or its passed field is
\* not false.
C29_PassedFollowsErrorOnly ==
  /\ (normalizing.pc = "done" /\ normalizing.shape = "results")
       => /\ normalizing.requestOutcome.passed <=> normalizing.result.error # "message"
          /\ Len(normalizing.requestOutcome.assertions)
               = Len(MergedTests(normalizing.result))
          /\ \A i \in 1..Len(normalizing.requestOutcome.assertions) :
               normalizing.requestOutcome.assertions[i].passed
                 <=> \/ MergedTests(normalizing.result)[i].status = "pass"
                     \/ MergedTests(normalizing.result)[i].passed = "true"
  /\ (normalizing.pc = "done" /\ normalizing.shape = "items")
       => /\ normalizing.requestOutcome.passed
               <=> (normalizing.item.status = "passed" \/ normalizing.item.passed # "false")
          /\ Len(normalizing.requestOutcome.assertions) = Len(normalizing.item.tests.list)

\* C29 witness: an entry without error whose test failed was normalized to
\* an outcome with passed = true and a failed assertion.
C29_Witness ==
  /\ normalizing.pc = "done" /\ normalizing.shape = "results"
  /\ normalizing.result.error = "null"
  /\ normalizing.result.testResults.present
  /\ Len(normalizing.result.testResults.list) > 0
  /\ normalizing.result.testResults.list[1].status = "fail"
  /\ normalizing.requestOutcome.passed
  /\ ~normalizing.requestOutcome.assertions[1].passed

(***************************************************************************)
(* Claims: environment variables as written                                *)
(***************************************************************************)
\* C30: environment variable parsing returns every "key: value" line of the
\* vars block up to the block's closing line, with the value as written: a
\* value that is a template reference such as {{secret}} is kept whole and
\* does not cut the block short, so the variables after it are returned too.
C30_VariablesAsWritten ==
  (/\ envValidation.pc = "done"
   /\ envValidation.file.exists /\ envValidation.file.readable
   /\ envValidation.file.content.header # "none"
   /\ envValidation.file.content.closed)
    => envValidation.result.variables = Assign(<<>>, envValidation.file.content.lines, 1)

====
